---------------------------- MODULE Spec2Model ----------------------------
(***************************************************************************)
(* Model of src/chapter3/De-identification.py: the k-anonymity,            *)
(* l-diversity and t-closeness calculators, the violation report, the two  *)
(* generalization functions and the three scenarios the module runs when   *)
(* it is executed or imported.                                             *)
(*                                                                         *)
(* Encoding of Python / pandas values:                                     *)
(*   - a DataFrame is a sequence of rows, a row a record column -> value;  *)
(*     a Series is a function from index labels to values (a sub-frame of  *)
(*     a groupby keeps the labels of the frame it was cut from);           *)
(*   - 'Age' holds Python ints; 'Gender' and 'Diagnosis' hold strings;     *)
(*     'ZIP' and the generalized labels are strings the code slices and    *)
(*     concatenates, so they are sequences of one-character strings;       *)
(*   - None (a missing value in an object column) is the marker NoneVal;   *)
(*   - a Python float is an IEEE 754 double, kept as its sign, its 53-bit  *)
(*     significand in two 27-bit digits and its binary exponent; every     *)
(*     float operation rounds to nearest, ties to even, as the hardware    *)
(*     does;                                                               *)
(*   - the order in which Python iterates a set of strings follows their   *)
(*     hashes, which change from one run of the interpreter to the next,   *)
(*     and the order of insertion: total_variation_distance takes the      *)
(*     order of its set keys as the parameter hash_order, and the          *)
(*     functions that call it for each group (t_closeness_tv, and          *)
(*     report_violations through it) are the set of the results they can   *)
(*     give, one for each choice of the orders.                            *)
(***************************************************************************)
EXTENDS Integers, Sequences, FiniteSets, TLC

\* Largest number of rows of an enumerated input dataset.
MaxRows == 3

\* The integers handed to band_age range over -MaxAge..MaxAge.
MaxAge == 21

NoneVal == "None"

SA_COL == "Diagnosis"

\* The columns that hold plain strings, in which a cell can be None ('Age' is
\* an int64 column; 'ZIP' and the labels are character sequences here).
StringColumns == {"Gender", "Diagnosis"}

\* pd.isna(row[col])
IsNA(row, col) == col \in StringColumns /\ row[col] = NoneVal

-----------------------------------------------------------------------------
(* Python floats.  The record [neg, hi, lo, exp] is the double             *)
(* (-1)^neg * (hi * 2^27 + lo) * 2^exp.  A normal double has               *)
(* 2^25 <= hi < 2^26 and -1074 <= exp <= 971, a subnormal one hi < 2^25    *)
(* and exp = -1074; 0.0 is FZero.  Infinite operands and -0.0 are outside  *)
(* the domain of the operators.                                            *)

Abs(x) == IF x < 0 THEN -x ELSE x

Limb == 2^27

\* FZero is 0.0
FZero == [neg |-> FALSE, hi |-> 0, lo |-> 0, exp |-> 0]

\* the value a float operation overflows to
FInf(neg) == [neg |-> neg, hi |-> 2^25, lo |-> 0, exp |-> 972]

IsZero(x) == x.hi = 0 /\ x.lo = 0

\* number of binary digits of x, 0 <= x < 2^31
RECURSIVE BitLen(_)
BitLen(x) ==
    IF x >= 4096 THEN 12 + BitLen(x \div 4096)
    ELSE IF x >= 64 THEN 6 + BitLen(x \div 64)
    ELSE IF x >= 8 THEN 3 + BitLen(x \div 8)
    ELSE IF x = 0 THEN 0 ELSE 1 + BitLen(x \div 2)

\* 1 when a non-zero bit was shifted out, kept in the lowest bit ("sticky")
Jam(w, lost) == IF lost /\ w % 2 = 0 THEN w + 1 ELSE w

\* <<hi, lo, tail>> is the number hi * Limb + lo + tail / Limb.
\* The number divided by 2^r, r >= 0, rounded towards zero, sticky.
ShiftRight(w, r) ==
    IF r = 0 THEN w
    ELSE IF r >= 81 THEN <<0, 0, Jam(0, w # <<0, 0, 0>>)>>
    ELSE LET q == r \div 27
             s == r % 27
             a == IF q = 0 THEN w[1] ELSE 0
             b == IF q = 0 THEN w[2] ELSE IF q = 1 THEN w[1] ELSE 0
             c == IF q = 0 THEN w[3] ELSE IF q = 1 THEN w[2] ELSE w[1]
             gone == (q >= 1 /\ w[3] # 0) \/ (q = 2 /\ w[2] # 0)
             p == 2^s
             m == 2^(27 - s)
         IN <<a \div p,
              (a % p) * m + b \div p,
              Jam((b % p) * m + c \div p, gone \/ c % p # 0)>>

\* The number times 2^z, 0 <= z, when no digit leaves at the top.
ShiftLeft(w, z) ==
    IF z = 0 THEN w
    ELSE LET q == z \div 27
             s == z % 27
             a == IF q = 0 THEN w[1] ELSE IF q = 1 THEN w[2] ELSE w[3]
             b == IF q = 0 THEN w[2] ELSE IF q = 1 THEN w[3] ELSE 0
             c == IF q = 0 THEN w[3] ELSE 0
             p == 2^s
             m == 2^(27 - s)
         IN <<(a % m) * p + b \div m, (b % m) * p + c \div m, (c % m) * p>>

\* Position of the highest non-zero bit of <<hi, lo, tail>>, counted from 1.
Width(w) ==
    IF w[1] # 0 THEN 54 + BitLen(w[1])
    ELSE IF w[2] # 0 THEN 27 + BitLen(w[2])
    ELSE BitLen(w[3])

\* round-half-even of the number w * 2^exp to a double: 53 significant bits,
\* and no bit below 2^-1074 (gradual underflow)
Round(neg, w, exp) ==
    LET \* the double with the digits hi, lo, which may have grown to 54 bits
        Pack(hi, lo, e) ==
            IF hi = 2^26
            THEN IF e + 1 > 971 THEN FInf(neg)
                 ELSE [neg |-> neg, hi |-> 2^25, lo |-> 0, exp |-> e + 1]
            ELSE IF e > 971 THEN FInf(neg)
            ELSE IF hi = 0 /\ lo = 0 THEN FZero
            ELSE [neg |-> neg, hi |-> hi, lo |-> lo, exp |-> e]
        Carry(hi, lo, e, up) == Pack(IF up /\ lo = 0 THEN hi + 1 ELSE hi, lo, e)
        Increment(v, e, up) ==
            Carry(v[1], IF up THEN (v[2] + 1) % Limb ELSE v[2], e, up)
        \* v is w shifted to 53 digits before the tail: the tail decides
        Nearest(v, e) ==
            Increment(v, e, v[3] > 2^26 \/ (v[3] = 2^26 /\ v[2] % 2 = 1))
        ShiftedBy(z) ==
            Nearest(IF z >= 0 THEN ShiftLeft(w, z) ELSE ShiftRight(w, -z), exp - z)
        Places(z0) == IF exp - z0 < -1074 THEN exp + 1074 ELSE z0
    IN IF w = <<0, 0, 0>> THEN FZero ELSE ShiftedBy(Places(80 - Width(w)))

WLess(a, b) ==
    \/ a[1] < b[1]
    \/ a[1] = b[1] /\ a[2] < b[2]
    \/ a[1] = b[1] /\ a[2] = b[2] /\ a[3] < b[3]

WAdd(a, b) ==
    LET t == a[3] + b[3]
        l == a[2] + b[2] + t \div Limb
    IN <<a[1] + b[1] + l \div Limb, l % Limb, t % Limb>>

\* a - b for a >= b
WSub(a, b) ==
    LET t == a[3] - b[3]
        bt == IF t < 0 THEN 1 ELSE 0
        l == a[2] - b[2] - bt
        bl == IF l < 0 THEN 1 ELSE 0
    IN <<a[1] - b[1] - bl, l + bl * Limb, t + bt * Limb>>

\* x + y of two floats, x.exp >= y.exp
AddAligned(x, y) ==
    LET Combine(a, b) ==
            Round(IF x.neg = y.neg \/ ~WLess(a, b) THEN x.neg ELSE y.neg,
                  IF x.neg = y.neg THEN WAdd(a, b)
                  ELSE IF WLess(a, b) THEN WSub(b, a) ELSE WSub(a, b),
                  x.exp)
    IN Combine(<<x.hi, x.lo, 0>>, ShiftRight(<<y.hi, y.lo, 0>>, x.exp - y.exp))

\* x + y
FAdd(x, y) ==
    IF IsZero(x) THEN y
    ELSE IF IsZero(y) THEN x
    ELSE IF x.exp >= y.exp THEN AddAligned(x, y) ELSE AddAligned(y, x)

\* x - y
FSub(x, y) == FAdd(x, [y EXCEPT !.neg = ~y.neg /\ ~IsZero(y)])

\* abs(x)
FAbs(x) == [x EXCEPT !.neg = FALSE]

\* 0.5 * x
FHalf(x) == Round(x.neg, <<x.hi, x.lo, 0>>, x.exp - 1)

\* Faulty variant: x <= y
FLess_or_equal(x, y) ==
    LET below(a, b) ==
            \/ IsZero(a) /\ ~IsZero(b)
            \/ /\ ~IsZero(a) /\ ~IsZero(b)
               /\ \/ a.exp < b.exp
                  \/ a.exp = b.exp /\ WLess(<<a.hi, a.lo, 0>>, <<b.hi, b.lo, 0>>)
    IN x = y \/ (IF x.neg # y.neg THEN x.neg
                ELSE IF x.neg THEN below(y, x) ELSE below(x, y))

\* x < y
FLess(x, y) ==
    LET below(a, b) ==
            \/ IsZero(a) /\ ~IsZero(b)
            \/ /\ ~IsZero(a) /\ ~IsZero(b)
               /\ \/ a.exp < b.exp
                  \/ a.exp = b.exp /\ WLess(<<a.hi, a.lo, 0>>, <<b.hi, b.lo, 0>>)
    IN IF x.neg # y.neg THEN x.neg
       ELSE IF x.neg THEN below(y, x) ELSE below(x, y)

\* x <= y
FLeq(x, y) == x = y \/ FLess(x, y)

\* 1.0
FOne == [neg |-> FALSE, hi |-> 2^25, lo |-> 0, exp |-> -52]

\* the 27 binary digits of r / t after the point, and the remainder, r < t < 2^22
DivLimb(r, t) ==
    LET a == r * 512
        b == (a % t) * 512
        c == (b % t) * 512
    IN [q |-> ((a \div t) * 512 + b \div t) * 512 + c \div t, r |-> c % t]

\* v / total of two integers (true division), 0 <= v < 2^27, 1 <= total < 2^22
TrueDiv(v, total) ==
    LET Third(f1, f2, f3) ==
            IF v < total
            THEN Round(FALSE, <<f1.q, f2.q, Jam(f3.q, f3.r # 0)>>, -54)
            ELSE Round(FALSE, <<v \div total, f1.q, Jam(f2.q, f2.r # 0)>>, -27)
        Second(f1, f2) == Third(f1, f2, DivLimb(f2.r, total))
        First(f1) == Second(f1, DivLimb(f1.r, total))
    IN First(DivLimb(v % total, total))

\* sum(f[k] for k in keys): Python's sum adds from the left, starting from the
\* int 0, in the order the keys are iterated
RECURSIVE FSum(_, _)
FSum(f, keys) ==
    IF keys = << >> THEN FZero
    ELSE FAdd(FSum(f, SubSeq(keys, 1, Len(keys) - 1)), f[keys[Len(keys)]])

RECURSIVE ISum(_, _)
ISum(f, S) ==
    IF S = {} THEN 0
    ELSE LET k == CHOOSE x \in S : TRUE
         IN f[k] + ISum(f, S \ {k})

\* Series.min() of a non-empty integer Series
SeriesMin(f) == CHOOSE m \in {f[k] : k \in DOMAIN f} : \A k \in DOMAIN f : m <= f[k]

-----------------------------------------------------------------------------
(* Strings the code builds: str(int), f-strings, slices.                   *)

Digit(d) == <<"0", "1", "2", "3", "4", "5", "6", "7", "8", "9">>[d + 1]

RECURSIVE NatStr(_)
NatStr(n) == IF n < 10 THEN <<Digit(n)>> ELSE NatStr(n \div 10) \o <<Digit(n % 10)>>

\* str(n) for a Python int
IntStr(n) == IF n < 0 THEN <<"-">> \o NatStr(-n) ELSE NatStr(n)

\* z[:n] for a string z
Prefix(z, n) == SubSeq(z, 1, IF Len(z) < n THEN Len(z) ELSE n)

\* Faulty variant: the quotient is truncated towards zero (int(age / 10))
band_age_truncating(age) ==
    LET lower == (IF age < 0 THEN -((-age) \div 10) ELSE age \div 10) * 10
        upper == lower + 9
    IN IntStr(lower) \o <<"-">> \o IntStr(upper)

\* Faulty variant: the band's upper end is the next band's lower end
band_age_upper_plus_10(age) ==
    LET lower == (age \div 10) * 10
        upper == lower + 10
    IN IntStr(lower) \o <<"-">> \o IntStr(upper)

band_age(age) ==
    LET lower == (age \div 10) * 10
        upper == lower + 9
    IN IntStr(lower) \o <<"-">> \o IntStr(upper)

\* Faulty variant: two characters are kept
zip3_prefix_keeps_two(z) ==
    IF Len(z) >= 3 THEN Prefix(z, 2) \o <<"*", "*">> ELSE z \o <<"*", "*">>

zip3_prefix(z) ==
    IF Len(z) >= 3 THEN Prefix(z, 3) \o <<"*", "*">> ELSE z \o <<"*", "*">>

\* Python values of any type, as the two functions can be handed them.  The
\* floats handed to them are the multiples of 0.5: PyFloat(h) is the float h / 2
\* (28.5 is PyFloat(57), 1.0 is PyFloat(2)), which is exact for every integer h.
PyInt(n) == [type |-> "int", v |-> n]
PyStr(s) == [type |-> "str", chars |-> s]
PyFloat(h) == [type |-> "float", halves |-> h]
PyNone == [type |-> "NoneType"]

\* str(x) of a float with the integral value n: "20.0"
IntegralFloatStr(n) == IntStr(n) \o <<".", "0">>

\* str(x) of the float h / 2: below 1e16 in magnitude a float prints in fixed
\* notation, as the shortest decimal that reads back as x, which for h / 2 is
\* its integer part followed by ".0" or ".5"
FloatStr(h) ==
    (IF h < 0 THEN <<"-">> ELSE << >>)
       \o NatStr(Abs(h) \div 2) \o <<".">>
       \o (IF h % 2 = 0 THEN <<"0">> ELSE <<"5">>)

\* str(x) for a str (itself), an int, a float and None
StrOf(x) ==
    IF x.type = "str" THEN x.chars
    ELSE IF x.type = "int" THEN IntStr(x.v)
    ELSE IF x.type = "float" THEN FloatStr(x.halves)
    ELSE <<"N", "o", "n", "e">>

\* band_age(x) for a value of any type: // on an int is the integer floor
\* division, on a float the float floor division (the results are floats and
\* print with ".0"), on a str or None a TypeError
band_age_py(x) ==
    IF x.type = "int" THEN [raised |-> FALSE, ret |-> band_age(x.v)]
    ELSE IF x.type = "float"
    THEN LET lower == (x.halves \div 20) * 10
             upper == lower + 9
         IN [raised |-> FALSE,
             ret |-> IntegralFloatStr(lower) \o <<"-">> \o IntegralFloatStr(upper)]
    ELSE [raised |-> TRUE, ret |-> << >>]

\* zip3_prefix(x) for a value of any type: str(z) converts it, nothing raises
zip3_prefix_py(x) == [raised |-> FALSE, ret |-> zip3_prefix(StrOf(x))]

-----------------------------------------------------------------------------
(* pandas: groupby(qi_cols, dropna=False), size, nunique, value_counts.    *)

\* Faulty variant: the key is the value of the first quasi-identifier only
GroupKey_first_only(row, qi_cols) == <<row[qi_cols[1]]>>

\* the group key of one row: the tuple of its values in the qi_cols order
GroupKey(row, qi_cols) == [j \in 1..Len(qi_cols) |-> row[qi_cols[j]]]

\* Faulty variant: df.groupby(qi_cols): rows with a missing key component are dropped
groupby_dropna(df, qi_cols) ==
    LET kept == {i \in 1..Len(df) : \A j \in 1..Len(qi_cols) : ~IsNA(df[i], qi_cols[j])}
        keys == {GroupKey(df[i], qi_cols) : i \in kept}
    IN [key \in keys |-> {i \in kept : GroupKey(df[i], qi_cols) = key}]

\* df.groupby(qi_cols, dropna=False): key -> index labels of the member rows
groupby(df, qi_cols) ==
    LET keys == {GroupKey(df[i], qi_cols) : i \in 1..Len(df)}
    IN [key \in keys |-> {i \in 1..Len(df) : GroupKey(df[i], qi_cols) = key}]

\* .size(): key -> number of rows of the group
GroupSizes(df, qi_cols) ==
    LET g == groupby(df, qi_cols)
    IN [key \in DOMAIN g |-> Cardinality(g[key])]

\* [sa_col].nunique(): key -> number of distinct values, missing values not
\* counted (nunique's dropna defaults to True)
GroupNunique(df, qi_cols, sa_col) ==
    LET g == groupby(df, qi_cols)
    IN [key \in DOMAIN g |->
          Cardinality({df[i][sa_col] : i \in {m \in g[key] : ~IsNA(df[m], sa_col)}})]

\* .reset_index(name=...): the Series as a table, one row per group
ResetIndex(s) == {[key |-> key, value |-> s[key]] : key \in DOMAIN s}

\* sub[sa_col] / df[sa_col]: the column over the index labels idx
Column(df, idx, col) == [i \in idx |-> df[i][col]]

\* Faulty variant: series.value_counts(): missing values are not counted
ValueCounts_dropna(series) ==
    [v \in {series[i] : i \in DOMAIN series} \ {NoneVal} |->
        Cardinality({i \in DOMAIN series : series[i] = v})]

\* series.value_counts(dropna=False): value -> number of occurrences
ValueCounts(series) ==
    [v \in {series[i] : i \in DOMAIN series} |->
        Cardinality({i \in DOMAIN series : series[i] = v})]

-----------------------------------------------------------------------------
(* The helper functions of the module.                                     *)

\* Series.max() of a non-empty integer Series
SeriesMax(f) == CHOOSE m \in {f[k] : k \in DOMAIN f} : \A k \in DOMAIN f : m >= f[k]

\* Faulty variant: the largest group size instead of the smallest
k_anonymity_pandas_max(df, qi_cols) ==
    LET sizes == GroupSizes(df, qi_cols)
    IN IF Cardinality(DOMAIN sizes) > 0 THEN SeriesMax(sizes) ELSE 0

k_anonymity_pandas(df, qi_cols) ==
    LET sizes == GroupSizes(df, qi_cols)
    IN IF Cardinality(DOMAIN sizes) > 0 THEN SeriesMin(sizes) ELSE 0

\* Faulty variant: the largest count of distinct values instead of the smallest
l_diversity_count_max(df, qi_cols, sa_col) ==
    LET counts == GroupNunique(df, qi_cols, sa_col)
    IN IF Cardinality(DOMAIN counts) > 0 THEN SeriesMax(counts) ELSE 0

l_diversity_count(df, qi_cols, sa_col) ==
    LET counts == GroupNunique(df, qi_cols, sa_col)
    IN IF Cardinality(DOMAIN counts) > 0 THEN SeriesMin(counts) ELSE 0

distribution(series) ==
    LET counts == ValueCounts(series)
        total == ISum(counts, DOMAIN counts)
    IN IF total > 0 THEN [k \in DOMAIN counts |-> TrueDiv(counts[k], total)]
       ELSE << >>

\* p.get(k, 0.0)
Get(p, k) == IF k \in DOMAIN p THEN p[k] ELSE FZero

\* the orders in which a set of the values of S can be iterated
Orderings(S) ==
    {s \in [1..Cardinality(S) -> S] : \A i, j \in DOMAIN s : i # j => s[i] # s[j]}

\* the elements of the set keys in the order Python iterates them: hash_order
\* lists values without repetition, every element of keys among them
Iterate(keys, hash_order) == SelectSeq(hash_order, LAMBDA k : k \in keys)

\* Faulty variant: the sum of the absolute differences, not halved
total_variation_distance_not_halved(p, q, hash_order) ==
    LET keys == DOMAIN p \cup DOMAIN q
        diff == [k \in keys |-> FAbs(FSub(Get(p, k), Get(q, k)))]
    IN FSum(diff, Iterate(keys, hash_order))

total_variation_distance(p, q, hash_order) ==
    LET keys == DOMAIN p \cup DOMAIN q
        diff == [k \in keys |-> FAbs(FSub(Get(p, k), Get(q, k)))]
    IN FHalf(FSum(diff, Iterate(keys, hash_order)))

\* the values tv can take for one group (body of the loop).  Each call of
\* total_variation_distance builds its set keys anew, and the order in which
\* a set of strings is iterated depends on the hashes of the strings and on
\* the order of insertion, so the calls for two groups may iterate the same
\* keys in different orders.
GroupTVs(df, members, sa_col, global_dist) ==
    LET OfOrders(p) ==
            {total_variation_distance(p, global_dist, hash_order) :
                hash_order \in Orderings(DOMAIN p \cup DOMAIN global_dist)}
    IN OfOrders(distribution(Column(df, members, sa_col)))

\* Faulty variant: the loop keeps the tv of the group it visited last
RECURSIVE TVLoop_keep_last(_, _, _, _, _, _)
TVLoop_keep_last(df, g, todo, sa_col, global_dist, max_tv) ==
    IF todo = {} THEN max_tv
    ELSE LET key == CHOOSE x \in todo : TRUE
         IN TVLoop_keep_last(df, g, todo \ {key}, sa_col, global_dist,
                             GroupTVs(df, g[key], sa_col, global_dist))

\* the loop of t_closeness_tv over the groups not yet visited; max_tv is the
\* set of the values the variable max_tv can hold at this point, and the
\* result the set of the values it can hold after the loop
RECURSIVE TVLoop(_, _, _, _, _, _)
TVLoop(df, g, todo, sa_col, global_dist, max_tv) ==
    IF todo = {} THEN max_tv
    ELSE LET key == CHOOSE x \in todo : TRUE
         IN TVLoop(df, g, todo \ {key}, sa_col, global_dist,
                   {IF FLess(m, tv) THEN tv ELSE m :
                       m \in max_tv, tv \in GroupTVs(df, g[key], sa_col, global_dist)})

\* the set of the values the call can return: one value for each choice of
\* the iteration orders
t_closeness_tv(df, qi_cols, sa_col) ==
    LET global_dist == distribution(Column(df, 1..Len(df), sa_col))
        g == groupby(df, qi_cols)
    IN TVLoop(df, g, DOMAIN g, sa_col, global_dist, {FZero})

\* Faulty variant: the lists are printed without the test of the metric, and
\* hold the classes that are at the threshold too
report_violations_lists_unguarded(df, qi_cols, sa_col, k_req, l_req, t_req) ==
    LET sizes == ResetIndex(GroupSizes(df, qi_cols))
        k_val == IF sizes # {} THEN SeriesMin(GroupSizes(df, qi_cols)) ELSE 0
        l_counts == ResetIndex(GroupNunique(df, qi_cols, sa_col))
        l_val == IF l_counts # {} THEN SeriesMin(GroupNunique(df, qi_cols, sa_col)) ELSE 0
        t_vals == IF Len(df) # 0 THEN t_closeness_tv(df, qi_cols, sa_col) ELSE {FZero}
    IN {[qi_cols |-> qi_cols, k_req |-> k_req, l_req |-> l_req, t_req |-> t_req,
         sizes |-> sizes,
         k_val |-> k_val,
         k_printed |-> k_val < k_req,
         k_groups |-> {r \in sizes : r.value <= k_req},
         l_counts |-> l_counts,
         l_val |-> l_val,
         l_printed |-> l_val < l_req,
         l_groups |-> {r \in l_counts : r.value <= l_req},
         t_val |-> t_val,
         t_printed |-> FLess(t_req, t_val),
         t_groups |-> {}] : t_val \in t_vals}

\* Faulty variant: on an empty table no metric is reported as violated
report_violations_empty_passes(df, qi_cols, sa_col, k_req, l_req, t_req) ==
    LET sizes == ResetIndex(GroupSizes(df, qi_cols))
        k_val == IF sizes # {} THEN SeriesMin(GroupSizes(df, qi_cols)) ELSE 0
        l_counts == ResetIndex(GroupNunique(df, qi_cols, sa_col))
        l_val == IF l_counts # {} THEN SeriesMin(GroupNunique(df, qi_cols, sa_col)) ELSE 0
        t_vals == IF Len(df) # 0 THEN t_closeness_tv(df, qi_cols, sa_col) ELSE {FZero}
    IN {[qi_cols |-> qi_cols, k_req |-> k_req, l_req |-> l_req, t_req |-> t_req,
         sizes |-> sizes,
         k_val |-> k_val,
         k_printed |-> Len(df) # 0 /\ k_val < k_req,
         k_groups |-> IF k_val < k_req THEN {r \in sizes : r.value < k_req} ELSE {},
         l_counts |-> l_counts,
         l_val |-> l_val,
         l_printed |-> Len(df) # 0 /\ l_val < l_req,
         l_groups |-> IF l_val < l_req THEN {r \in l_counts : r.value < l_req} ELSE {},
         t_val |-> t_val,
         t_printed |-> FLess(t_req, t_val),
         t_groups |-> {}] : t_val \in t_vals}

\* The reports one call can print: the values it computes and the lines it
\* prints, one report for each value t_closeness_tv can return.
\* k_printed / l_printed: the "Groups violating ..." block was printed, with
\* the rows k_groups / l_groups; t_printed: the "t-closeness violated" line,
\* after which no rows are printed (t_groups).
report_violations(df, qi_cols, sa_col, k_req, l_req, t_req) ==
    LET sizes == ResetIndex(GroupSizes(df, qi_cols))
        k_val == IF sizes # {} THEN SeriesMin(GroupSizes(df, qi_cols)) ELSE 0
        l_counts == ResetIndex(GroupNunique(df, qi_cols, sa_col))
        l_val == IF l_counts # {} THEN SeriesMin(GroupNunique(df, qi_cols, sa_col)) ELSE 0
        t_vals == IF Len(df) # 0 THEN t_closeness_tv(df, qi_cols, sa_col) ELSE {FZero}
    IN {[qi_cols |-> qi_cols, k_req |-> k_req, l_req |-> l_req, t_req |-> t_req,
         sizes |-> sizes,
         k_val |-> k_val,
         k_printed |-> k_val < k_req,
         k_groups |-> IF k_val < k_req THEN {r \in sizes : r.value < k_req} ELSE {},
         l_counts |-> l_counts,
         l_val |-> l_val,
         l_printed |-> l_val < l_req,
         l_groups |-> IF l_val < l_req THEN {r \in l_counts : r.value < l_req} ELSE {},
         t_val |-> t_val,
         t_printed |-> FLess(t_req, t_val),
         t_groups |-> {}] : t_val \in t_vals}

-----------------------------------------------------------------------------
(* Input data.                                                             *)

Str35294 == <<"3", "5", "2", "9", "4">>
Str35295 == <<"3", "5", "2", "9", "5">>

Row(a, z, g, d) == [Age |-> a, ZIP |-> z, Gender |-> g, Diagnosis |-> d]

\* the dataset of the module
ReferenceData ==
    << Row(28, Str35294, "F", "Asthma"),
       Row(29, Str35294, "M", "Diabetes"),
       Row(29, Str35295, "F", "Asthma"),
       Row(40, Str35294, "M", "Cancer"),
       Row(40, Str35295, "F", "Cancer"),
       Row(41, Str35295, "M", "Diabetes") >>

\* five records with two diagnoses: the two classes by Age are at the distance
\* 3/10 from the distribution of the whole table, the two classes by Gender
\* are the four records of one diagnosis and the record of the other
TieData ==
    << Row(28, Str35294, "F", "Asthma"),
       Row(28, Str35294, "M", "Diabetes"),
       Row(40, Str35294, "F", "Asthma"),
       Row(40, Str35294, "F", "Asthma"),
       Row(40, Str35294, "F", "Asthma") >>

\* twelve records, four of each diagnosis: the three classes by Age and the
\* class that merges the ages 28 and 29 are all at the distance 1/3 from the
\* distribution of the whole table
MergeData ==
    << Row(28, Str35294, "F", "Asthma"),
       Row(28, Str35294, "F", "Diabetes"),
       Row(28, Str35294, "F", "Diabetes"),
       Row(29, Str35294, "F", "Diabetes"),
       Row(29, Str35294, "F", "Asthma"),
       Row(29, Str35294, "F", "Asthma"),
       Row(40, Str35294, "F", "Cancer"),
       Row(40, Str35294, "F", "Cancer"),
       Row(40, Str35294, "F", "Cancer"),
       Row(40, Str35294, "F", "Cancer"),
       Row(40, Str35294, "F", "Asthma"),
       Row(40, Str35294, "F", "Diabetes") >>

\* rows of the enumerated datasets: rows of the reference data and rows with
\* a missing quasi-identifier or a missing sensitive value
RowPool ==
    << Row(28, Str35294, "F", "Asthma"),
      Row(29, Str35294, "M", "Diabetes"),
      Row(29, Str35295, "F", "Asthma"),
      Row(40, Str35294, "M", "Cancer"),
      Row(28, Str35294, NoneVal, "Diabetes"),
      Row(29, Str35294, "M", NoneVal) >>

\* the rows of a dataset of n rows, as positions in RowPool: in the order of
\* the pool, since no function reads the position of a row in the table
PoolRows(n) ==
    {s \in [1..n -> 1..Len(RowPool)] : \A i \in 1..(n - 1) : s[i] <= s[i + 1]}

\* the datasets of up to MaxRows rows of the pool, the reference dataset and
\* the two larger datasets
Datasets ==
    UNION {{[i \in 1..n |-> RowPool[s[i]]] : s \in PoolRows(n)} : n \in 0..MaxRows}
       \cup {ReferenceData, TieData, MergeData}

QI_A == <<"Age", "ZIP", "Gender">>
QI_B == <<"AgeBand", "ZIP3", "Gender">>
QI_C == <<"AgeBand", "ZIP3">>

\* quasi-identifier lists over the columns of data_B: each of age and ZIP raw,
\* generalized or left out, gender kept or left out
QILists ==
    { a \o z \o g : a \in {<<"Age">>, <<"AgeBand">>, << >>},
                    z \in {<<"ZIP">>, <<"ZIP3">>, << >>},
                    g \in {<<"Gender">>, << >>} } \ {<< >>}

\* the float literals 0.20, 0.34 and 0.30: a literal is the double nearest to
\* the decimal it spells, which is the quotient of the two integers
Float_0_20 == TrueDiv(1, 5)
Float_0_34 == TrueDiv(17, 50)
Float_0_30 == TrueDiv(3, 10)

Thresholds ==
    { [k_req |-> 2, l_req |-> 2, t_req |-> Float_0_20],
      [k_req |-> 3, l_req |-> 2, t_req |-> Float_0_34],
      [k_req |-> 3, l_req |-> 2, t_req |-> Float_0_30],
      [k_req |-> 1, l_req |-> 1, t_req |-> FZero] }

\* arguments of band_age: the integers of the range, and values of other types
BandAgeInputs ==
    {PyInt(n) : n \in -MaxAge..MaxAge}
       \cup {PyFloat(57), PyFloat(-11), PyStr(<<"2", "8">>), PyNone}

\* arguments of zip3_prefix: strings of 0 to 5 characters, and values of other
\* types (28.5, 1.0 and 35294.0 among them)
ZipInputs ==
    {PyStr(SubSeq(Str35294, 1, n)) : n \in 0..5}
       \cup {PyInt(35294), PyInt(7), PyNone,
             PyFloat(57), PyFloat(2), PyFloat(70588), PyFloat(-11), PyFloat(0)}

\* index labels lo..hi of a frame of n rows (an iloc slice), empty included
Slices(n) == {<<1, 0>>} \cup {s \in (1..n) \X (1..n) : s[1] <= s[2]}

\* two columns of sensitive values with no value in common: one record, and
\* nine records of four other diagnoses
OneDiagnosis == <<"Cancer">>
FourDiagnoses ==
    <<"Asthma", "Asthma", "Diabetes", "Diabetes", "Flu", "Flu",
      "Migraine", "Migraine", "Migraine">>

\* the pairs of series total_variation_distance is called on: the
\* distributions of a slice and of the first rows (none, some or all) of the
\* sensitive column of df, or of the two columns above
SeriesPairs(df) ==
    {<<Column(df, s[1]..s[2], SA_COL), Column(df, 1..m, SA_COL)>> :
        s \in Slices(Len(df)), m \in 0..Len(df)}
       \cup {<<OneDiagnosis, FourDiagnoses>>}

-----------------------------------------------------------------------------
(* The module as a state machine.                                          *)

VARIABLES data_raw, data_B, pc, reports, call

vars == <<data_raw, data_B, pc, reports, call>>

\* data_raw.copy() with the two generalized columns added
WithGeneralizedColumns(df) ==
    [i \in 1..Len(df) |->
        [Age |-> df[i].Age, ZIP |-> df[i].ZIP, Gender |-> df[i].Gender,
         Diagnosis |-> df[i].Diagnosis,
         AgeBand |-> band_age(df[i].Age), ZIP3 |-> zip3_prefix(df[i].ZIP)]]

Init ==
    /\ data_raw \in Datasets
    /\ data_B = << >>
    /\ pc = "A"
    /\ reports = << >>
    /\ call = [fn |-> "none"]

ScenarioA ==
    /\ pc = "A"
    /\ \E r \in report_violations(data_raw, QI_A, SA_COL, 2, 2, Float_0_20) :
          reports' = Append(reports, r)
    /\ pc' = "B"
    /\ UNCHANGED <<data_raw, data_B, call>>

\* Faulty variant: data_B is an alias of data_raw instead of a copy, so the
\* generalized columns are added to data_raw itself.
ScenarioB_without_copy ==
    /\ pc = "B"
    /\ data_B' = WithGeneralizedColumns(data_raw)
    /\ data_raw' = data_B'
    /\ \E r \in report_violations(data_B', QI_B, SA_COL, 2, 2, Float_0_20) :
          reports' = Append(reports, r)
    /\ pc' = "C"
    /\ UNCHANGED call

ScenarioB ==
    /\ pc = "B"
    /\ data_B' = WithGeneralizedColumns(data_raw)
    /\ \E r \in report_violations(data_B', QI_B, SA_COL, 2, 2, Float_0_20) :
          reports' = Append(reports, r)
    /\ pc' = "C"
    /\ UNCHANGED <<data_raw, call>>

ScenarioC ==
    /\ pc = "C"
    /\ \E r \in report_violations(data_B, QI_C, SA_COL, 3, 2, Float_0_34) :
          reports' = Append(reports, r)
    /\ pc' = "done"
    /\ UNCHANGED <<data_raw, data_B, call>>

\* Calls of the module's functions (with the values of their locals) once the module has been executed, on
\* its table data_B (which holds the raw and the generalized columns).  The
\* code is single-threaded: a call starts when no other call is in progress.
Call_k_anonymity_pandas ==
    /\ pc = "done"
    /\ call.fn = "none"
    /\ \E qi_cols \in QILists :
          call' = [fn |-> "k_anonymity_pandas", qi_cols |-> qi_cols,
                   groups |-> groupby(data_B, qi_cols),
                   sizes |-> GroupSizes(data_B, qi_cols),
                   ret |-> k_anonymity_pandas(data_B, qi_cols)]
    /\ UNCHANGED <<data_raw, data_B, pc, reports>>

Call_l_diversity_count ==
    /\ pc = "done"
    /\ call.fn = "none"
    /\ \E qi_cols \in QILists :
          call' = [fn |-> "l_diversity_count", qi_cols |-> qi_cols,
                   groups |-> groupby(data_B, qi_cols),
                   counts |-> GroupNunique(data_B, qi_cols, SA_COL),
                   ret |-> l_diversity_count(data_B, qi_cols, SA_COL)]
    /\ UNCHANGED <<data_raw, data_B, pc, reports>>

Call_t_closeness_tv ==
    /\ pc = "done"
    /\ call.fn = "none"
    /\ \E qi_cols \in QILists :
          \E ret \in t_closeness_tv(data_B, qi_cols, SA_COL) :
             call' = [fn |-> "t_closeness_tv", qi_cols |-> qi_cols,
                      groups |-> groupby(data_B, qi_cols),
                      ret |-> ret]
    /\ UNCHANGED <<data_raw, data_B, pc, reports>>

Call_distribution ==
    /\ pc = "done"
    /\ call.fn = "none"
    /\ \E s \in Slices(Len(data_B)) :
          LET series == Column(data_B, s[1]..s[2], SA_COL)
          IN call' = [fn |-> "distribution", series |-> series,
                      ret |-> distribution(series)]
    /\ UNCHANGED <<data_raw, data_B, pc, reports>>

Call_total_variation_distance ==
    /\ pc = "done"
    /\ call.fn = "none"
    /\ \E s \in SeriesPairs(data_B) :
          LET p == distribution(s[1])
              q == distribution(s[2])
          IN \E hash_order \in Orderings(DOMAIN p \cup DOMAIN q) :
                call' = [fn |-> "total_variation_distance", sp |-> s[1], sq |-> s[2],
                         ret |-> total_variation_distance(p, q, hash_order)]
    /\ UNCHANGED <<data_raw, data_B, pc, reports>>

\* Faulty variant: the rows without a sensitive value are dropped from the
\* frame in place before the report is computed.
Call_report_violations_drops_in_place ==
    /\ pc = "done"
    /\ call.fn = "none"
    /\ data_B' = SelectSeq(data_B, LAMBDA row : ~IsNA(row, SA_COL))
    /\ \E qi_cols \in QILists, th \in Thresholds :
          \E ret \in report_violations(data_B', qi_cols, SA_COL,
                                       th.k_req, th.l_req, th.t_req) :
             call' = [fn |-> "report_violations", ret |-> ret]
    /\ UNCHANGED <<data_raw, pc, reports>>

Call_report_violations ==
    /\ pc = "done"
    /\ call.fn = "none"
    /\ \E qi_cols \in QILists, th \in Thresholds :
          \E ret \in report_violations(data_B, qi_cols, SA_COL,
                                       th.k_req, th.l_req, th.t_req) :
             call' = [fn |-> "report_violations", ret |-> ret]
    /\ UNCHANGED <<data_raw, data_B, pc, reports>>

Call_band_age ==
    /\ pc = "done"
    /\ call.fn = "none"
    /\ \E x \in BandAgeInputs :
          call' = [fn |-> "band_age", arg |-> x,
                   raised |-> band_age_py(x).raised, ret |-> band_age_py(x).ret]
    /\ UNCHANGED <<data_raw, data_B, pc, reports>>

Call_zip3_prefix ==
    /\ pc = "done"
    /\ call.fn = "none"
    /\ \E x \in ZipInputs :
          call' = [fn |-> "zip3_prefix", arg |-> x,
                   raised |-> zip3_prefix_py(x).raised, ret |-> zip3_prefix_py(x).ret]
    /\ UNCHANGED <<data_raw, data_B, pc, reports>>

\* the call returns and its frame is discarded
Return ==
    /\ call.fn # "none"
    /\ call' = [fn |-> "none"]
    /\ UNCHANGED <<data_raw, data_B, pc, reports>>

Next ==
    \/ ScenarioA
    \/ ScenarioB
    \/ ScenarioC
    \/ Call_k_anonymity_pandas
    \/ Call_l_diversity_count
    \/ Call_t_closeness_tv
    \/ Call_distribution
    \/ Call_total_variation_distance
    \/ Call_report_violations
    \/ Call_band_age
    \/ Call_zip3_prefix
    \/ Return

Spec == Init /\ [][Next]_vars

-----------------------------------------------------------------------------
(* Exceptions.  The module executed on a table whose Age column may hold   *)
(* strings (as a table read from text does), and the functions called on   *)
(* data_raw with column names it may not have.  A cell of the Age column   *)
(* is a typed value here; an uncaught exception ends the module.           *)

\* the columns of data_raw
RawColumns == {"Age", "ZIP", "Gender", "Diagnosis"}

\* the Age column as Python ints, or as the strings of these ints
AgesAs(df, type) ==
    [i \in 1..Len(df) |->
        [df[i] EXCEPT !.Age = IF type = "int" THEN PyInt(@) ELSE PyStr(NatStr(@))]]

ScriptRowPool ==
    { Row(28, Str35294, "F", "Asthma"),
      Row(29, Str35294, "M", "Diabetes"),
      Row(29, Str35294, "M", NoneVal) }

ScriptDatasets ==
    { AgesAs(df, type) : df \in UNION {[1..n -> ScriptRowPool] : n \in 0..MaxRows},
                         type \in {"int", "str"} }

\* column names the functions are called with on data_raw
ScriptQILists == {QI_A, QI_B, QI_C}
ScriptSAColumns == {SA_COL, "Disease"}

\* df.groupby(qi_cols, ...) and df[col] raise KeyError for an absent column
HasColumns(columns, names) == \A j \in 1..Len(names) : names[j] \in columns

KeyError == [raised |-> TRUE, ret |-> "KeyError"]
Returned(v) == [raised |-> FALSE, ret |-> v]

\* Faulty variant: the absent columns are left out of the group key
k_anonymity_pandas_py_skips_absent(columns, df, qi_cols) ==
    Returned(k_anonymity_pandas(df, SelectSeq(qi_cols, LAMBDA c : c \in columns)))

k_anonymity_pandas_py(columns, df, qi_cols) ==
    IF ~HasColumns(columns, qi_cols) THEN KeyError
    ELSE Returned(k_anonymity_pandas(df, qi_cols))

l_diversity_count_py(columns, df, qi_cols, sa_col) ==
    IF ~HasColumns(columns, qi_cols) \/ sa_col \notin columns THEN KeyError
    ELSE Returned(l_diversity_count(df, qi_cols, sa_col))

\* the outcomes of the call: the exception, or one of the values
t_closeness_tv_py(columns, df, qi_cols, sa_col) ==
    IF sa_col \notin columns \/ ~HasColumns(columns, qi_cols) THEN {KeyError}
    ELSE {Returned(v) : v \in t_closeness_tv(df, qi_cols, sa_col)}

\* the k lines are printed before the sensitive column is first used
report_violations_py(columns, df, qi_cols, sa_col, k_req, l_req, t_req) ==
    IF ~HasColumns(columns, qi_cols)
    THEN {[raised |-> TRUE, ret |-> "KeyError", k_lines |-> FALSE]}
    ELSE IF sa_col \notin columns
    THEN {[raised |-> TRUE, ret |-> "KeyError", k_lines |-> TRUE]}
    ELSE {[raised |-> FALSE, ret |-> r, k_lines |-> TRUE] :
             r \in report_violations(df, qi_cols, sa_col, k_req, l_req, t_req)}

\* data_raw.copy() with the two generalized columns added, typed Age cells
WithGeneralizedColumns_py(df) ==
    [i \in 1..Len(df) |->
        [Age |-> df[i].Age, ZIP |-> df[i].ZIP, Gender |-> df[i].Gender,
         Diagnosis |-> df[i].Diagnosis,
         AgeBand |-> band_age_py(df[i].Age).ret, ZIP3 |-> zip3_prefix(df[i].ZIP)]]

ScriptInit ==
    /\ data_raw \in ScriptDatasets
    /\ data_B = << >>
    /\ pc = "A"
    /\ reports = << >>
    /\ call = [fn |-> "none"]

\* scenario B: the copy is made, then band_age is applied to each age; the
\* TypeError of band_age is not caught and ends the module before the report
\* of B and before scenario C
ScenarioB_py ==
    /\ pc = "B"
    /\ IF \E i \in 1..Len(data_raw) : band_age_py(data_raw[i].Age).raised
       THEN /\ data_B' = data_raw
            /\ pc' = "aborted"
            /\ UNCHANGED reports
       ELSE /\ data_B' = WithGeneralizedColumns_py(data_raw)
            /\ \E r \in report_violations(data_B', QI_B, SA_COL, 2, 2, Float_0_20) :
                  reports' = Append(reports, r)
            /\ pc' = "C"
    /\ UNCHANGED <<data_raw, call>>

Call_k_anonymity_pandas_py ==
    /\ pc = "done"
    /\ call.fn = "none"
    /\ \E qi_cols \in ScriptQILists :
          LET r == k_anonymity_pandas_py(RawColumns, data_raw, qi_cols)
          IN call' = [fn |-> "k_anonymity_pandas_py", qi_cols |-> qi_cols,
                      sa_col |-> SA_COL, raised |-> r.raised, ret |-> r.ret]
    /\ UNCHANGED <<data_raw, data_B, pc, reports>>

Call_l_diversity_count_py ==
    /\ pc = "done"
    /\ call.fn = "none"
    /\ \E qi_cols \in ScriptQILists, sa_col \in ScriptSAColumns :
          LET r == l_diversity_count_py(RawColumns, data_raw, qi_cols, sa_col)
          IN call' = [fn |-> "l_diversity_count_py", qi_cols |-> qi_cols,
                      sa_col |-> sa_col, raised |-> r.raised, ret |-> r.ret]
    /\ UNCHANGED <<data_raw, data_B, pc, reports>>

Call_t_closeness_tv_py ==
    /\ pc = "done"
    /\ call.fn = "none"
    /\ \E qi_cols \in ScriptQILists, sa_col \in ScriptSAColumns :
          \E r \in t_closeness_tv_py(RawColumns, data_raw, qi_cols, sa_col) :
             call' = [fn |-> "t_closeness_tv_py", qi_cols |-> qi_cols,
                      sa_col |-> sa_col, raised |-> r.raised, ret |-> r.ret]
    /\ UNCHANGED <<data_raw, data_B, pc, reports>>

Call_report_violations_py ==
    /\ pc = "done"
    /\ call.fn = "none"
    /\ \E qi_cols \in ScriptQILists, sa_col \in ScriptSAColumns, th \in Thresholds :
          \E r \in report_violations_py(RawColumns, data_raw, qi_cols, sa_col,
                                        th.k_req, th.l_req, th.t_req) :
             call' = [fn |-> "report_violations_py", qi_cols |-> qi_cols,
                      sa_col |-> sa_col, raised |-> r.raised, ret |-> r.ret,
                      k_lines |-> r.k_lines]
    /\ UNCHANGED <<data_raw, data_B, pc, reports>>

ScriptNext ==
    \/ ScenarioA
    \/ ScenarioB_py
    \/ ScenarioC
    \/ Call_k_anonymity_pandas_py
    \/ Call_l_diversity_count_py
    \/ Call_t_closeness_tv_py
    \/ Call_report_violations_py
    \/ Return

ScriptSpec == ScriptInit /\ [][ScriptNext]_vars

-----------------------------------------------------------------------------
(* Role-based access control (chapter2/RBACChecks.py).                     *)

Subject(user, role, department, purpose_of_use) ==
    [user |-> user, role |-> role, department |-> department,
     purpose_of_use |-> purpose_of_use]

Resource(type, sensitivity) == [type |-> type, sensitivity |-> sensitivity]

\* Faulty variant: the second rule admits the standard level only
rules_standard_only(s, r) ==
    << s.role = "Physician" /\ s.purpose_of_use = "treatment",
       s.role = "Researcher" /\ r.sensitivity = "standard" >>

\* the verdicts of the rules, in the order of the list
rules(s, r) ==
    << s.role = "Physician" /\ s.purpose_of_use = "treatment",
       s.role = "Researcher" /\ r.sensitivity # "high" >>

\* any(rule(subj, res) for rule in rules)
is_allowed(subj, res) == \E n \in DOMAIN rules(subj, res) : rules(subj, res)[n]

\* the subjects and resources of the module's test cases
alice == Subject("alice@hospital", "Physician", "Cardiology", "treatment")
report == Resource("ImagingReport", "high")
bob_researcher == Subject("bob@hospital", "Researcher", "Research", "research")
sensitive_data == Resource("GeneticData", "high")
standard_data == Resource("LabResult", "standard")

Subjects ==
    { Subject(u, ro, d, p) :
        u \in {"alice@hospital", "bob@hospital", "eve@elsewhere"},
        ro \in {"Physician", "Researcher", "Nurse"},
        d \in {"Cardiology", "Research"},
        p \in {"treatment", "research", "billing"} }

\* the sensitivity levels the Resource class declares
SensitivityLevels == {"standard", "high", "restricted"}

Resources ==
    { Resource(t, s) : t \in {"ImagingReport", "GeneticData", "LabResult"},
                       s \in SensitivityLevels }

RBACInit ==
    /\ data_raw = << >>
    /\ data_B = << >>
    /\ pc = "RBACChecks"
    /\ reports = << >>
    /\ call = [fn |-> "none"]

Call_is_allowed ==
    /\ pc = "RBACChecks"
    /\ call.fn = "none"
    /\ \E subj \in Subjects, res \in Resources :
          call' = [fn |-> "is_allowed", subj |-> subj, res |-> res,
                   verdicts |-> rules(subj, res), ret |-> is_allowed(subj, res)]
    /\ UNCHANGED <<data_raw, data_B, pc, reports>>

RBACNext ==
    \/ Call_is_allowed
    \/ Return

RBACSpec == RBACInit /\ [][RBACNext]_vars

-----------------------------------------------------------------------------
(* The rule checks of the compliance agent (chapter-3/compliance_agent.py). *)
(* Strings that the code inspects are sequences of characters; names that  *)
(* it only compares for equality are strings.  A dict is a function whose  *)
(* domain is the set of its keys.                                          *)

\* the printable ASCII characters in the order of their code points, from 32
\* (the grave accent, 96, cannot be written in a string: its place is kept)
Ascii ==
    <<" ", "!", "\"", "#", "$", "%", "&", "'", "(", ")", "*", "+", ",",
      "-", ".", "/", "0", "1", "2", "3", "4", "5", "6", "7", "8", "9", ":",
      ";", "<", "=", ">", "?", "@", "A", "B", "C", "D", "E", "F", "G", "H",
      "I", "J", "K", "L", "M", "N", "O", "P", "Q", "R", "S", "T", "U", "V",
      "W", "X", "Y", "Z", "[", "\\", "]", "^", "_", "grave", "a", "b", "c",
      "d", "e", "f", "g", "h", "i", "j", "k", "l", "m", "n", "o", "p", "q",
      "r", "s", "t", "u", "v", "w", "x", "y", "z", "{", "|", "}", "~">>

\* ord(c)
Ord(c) == 31 + (CHOOSE i \in 1..Len(Ascii) : Ascii[i] = c)

IsDigit(c) == Ord(c) >= Ord("0") /\ Ord(c) <= Ord("9")
IsUpper(c) == Ord(c) >= Ord("A") /\ Ord(c) <= Ord("Z")

\* s.lower()
Lower(s) ==
    [i \in 1..Len(s) |->
        IF IsUpper(s[i]) THEN Ascii[Ord(s[i]) + Ord("a") - Ord("A") - 31] ELSE s[i]]

\* sub in s
Contains(s, sub) ==
    \E i \in 1..(Len(s) - Len(sub) + 1) : SubSeq(s, i, i + Len(sub) - 1) = sub

\* s.split(sep)[0]: the part of s before the first occurrence of sep
SplitFirst(s, sep) ==
    IF Contains(s, sep)
    THEN LET i == CHOOSE i \in 1..(Len(s) - Len(sep) + 1) :
                     /\ SubSeq(s, i, i + Len(sep) - 1) = sep
                     /\ \A j \in 1..(i - 1) : SubSeq(s, j, j + Len(sep) - 1) # sep
         IN SubSeq(s, 1, i - 1)
    ELSE s

\* s.strip()
RECURSIVE Strip(_)
Strip(s) ==
    IF s = << >> THEN s
    ELSE IF Head(s) = " " THEN Strip(Tail(s))
    ELSE IF s[Len(s)] = " " THEN Strip(SubSeq(s, 1, Len(s) - 1))
    ELSE s

\* re.search(r"(\d{4})", s): the first four consecutive digits, << >> if none
FourDigits(s) ==
    LET hits == {i \in 1..(Len(s) - 3) : \A j \in i..(i + 3) : IsDigit(s[j])}
    IN IF hits = {} THEN << >>
       ELSE LET i == CHOOSE i \in hits : \A h \in hits : i <= h
            IN SubSeq(s, i, i + 3)

\* a < b for two Python strings: by code point at the first difference, a
\* proper prefix first
StrLess(a, b) ==
    \E i \in 1..Len(b) :
       /\ \A j \in 1..(i - 1) : j <= Len(a) /\ a[j] = b[j]
       /\ \/ i = Len(a) + 1
          \/ i <= Len(a) /\ Ord(a[i]) < Ord(b[i])

DIRECT_IDENTIFIERS ==
    { <<"n", "a", "m", "e">>,
      <<"n", "a", "m", "e", "s">>,
      <<"f", "u", "l", "l", "_", "n", "a", "m", "e">>,
      <<"m", "r", "n">>,
      <<"m", "e", "d", "i", "c", "a", "l", "_", "r", "e", "c", "o", "r", "d",
  "_", "n", "u", "m", "b", "e", "r">>,
      <<"s", "s", "n">>,
      <<"s", "o", "c", "i", "a", "l">>,
      <<"a", "d", "d", "r", "e", "s", "s">>,
      <<"a", "d", "d", "r", "e", "s", "s", "e", "s">>,
      <<"p", "h", "o", "n", "e">>,
      <<"t", "e", "l", "e", "p", "h", "o", "n", "e">>,
      <<"e", "m", "a", "i", "l">>,
      <<"d", "o", "b">>,
      <<"d", "a", "t", "e", "_", "o", "f", "_", "b", "i", "r", "t", "h">>,
      <<"s", "t", "r", "e", "e", "t">> }

\* d.get(key, default)
DictGet(d, key, default) == IF key \in DOMAIN d THEN d[key] ELSE default

Str_diabetes ==
    <<"d", "i", "a", "b", "e", "t", "e", "s">>
Str_e11 ==
    <<"e", "1", "1">>
Str_to ==
    <<"t", "o">>
Str_waiver ==
    <<"w", "a", "i", "v", "e", "r">>
Str_0101 ==
    <<"-", "0", "1", "-", "0", "1">>

Finding(rule_set, id, pass, detail) ==
    [rule_set |-> rule_set, id |-> id, pass |-> pass, detail |-> detail]

\* Faulty variant: a failing GDPR finding makes the verdict conditional
decide_verdict_counts_gdpr(results) ==
    IF \E n \in DOMAIN results : results[n].rule_set = "irb" /\ ~results[n].pass
    THEN "Not allowed"
    ELSE IF \E n \in DOMAIN results :
               results[n].rule_set \in {"hipaa", "gdpr"} /\ ~results[n].pass
    THEN "Allowed with conditions"
    ELSE "Allowed"

decide_verdict(results) ==
    IF \E n \in DOMAIN results : results[n].rule_set = "irb" /\ ~results[n].pass
    THEN "Not allowed"
    ELSE IF \E n \in DOMAIN results : results[n].rule_set = "hipaa" /\ ~results[n].pass
    THEN "Allowed with conditions"
    ELSE "Allowed"

\* the findings, in the order they are appended; the detail of the IRB
\* finding is the list of its issues, the other details are fixed texts
evaluate_rules(irb_scope, req) ==
    LET req_sites == DictGet(req, "sites", << >>)
        irb_sites == DictGet(irb_scope, "sites", << >>)
        site_issues == SelectSeq(req_sites,
                          LAMBDA s : \A n \in DOMAIN irb_sites : irb_sites[n] # s)
        condition == Lower(DictGet(DictGet(req, "population", << >>), "condition", << >>))
        pop_ok == Contains(condition, Str_diabetes) \/ Contains(condition, Str_e11)
        req_start == Strip(SplitFirst(req["time_window"], Str_to))
        m == FourDigits(irb_scope["timeframe"])
        irb_start == IF m # << >> THEN m \o Str_0101 ELSE << >>
        time_issue ==
            /\ "timeframe" \in DOMAIN irb_scope
            /\ "time_window" \in DOMAIN req
            /\ irb_start # << >>
            /\ StrLess(req_start, irb_start)
        issues ==
            (IF site_issues # << >> THEN <<"Sites not in IRB">> ELSE << >>)
               \o (IF ~pop_ok THEN <<"Population condition may not match IRB scope.">>
                   ELSE << >>)
               \o (IF time_issue THEN <<"Requested start date precedes IRB timeframe.">>
                   ELSE << >>)
        requested == {Lower(e) : e \in {DictGet(req, "data_elements", << >>)[n] :
                                          n \in DOMAIN DictGet(req, "data_elements", << >>)}}
        direct == {e \in requested : e \in DIRECT_IDENTIFIERS}
        hipaa_text == Lower(DictGet(irb_scope, "hipaa", << >>))
        has_waiver == Contains(hipaa_text, Str_waiver)
        jurisdictions == DictGet(req, "jurisdictions", << >>)
    IN << Finding("irb", "irb_scope_alignment", issues = << >>, issues),
          Finding("hipaa", "hipaa_minimum_necessary", direct = {},
                  IF direct # {} THEN <<"Direct identifiers requested.">> ELSE << >>),
          Finding("hipaa", "hipaa_deid_or_limited", direct = {},
                  IF direct # {}
                  THEN <<"Prefer De-Identification or Limited Dataset + DUA.">>
                  ELSE << >>),
          Finding("hipaa", "hipaa_auth_or_waiver", ~(direct # {} /\ ~has_waiver),
                  IF direct # {} /\ ~has_waiver
                  THEN <<"Identifiers with no HIPAA Authorization or IRB Waiver indicated.">>
                  ELSE << >>),
          Finding("gdpr", "gdpr_lawful_basis",
                  ~(\E n \in DOMAIN jurisdictions : jurisdictions[n] = "EU"),
                  IF \E n \in DOMAIN jurisdictions : jurisdictions[n] = "EU"
                  THEN <<"Document Art.6 and Art.9(2) safeguards.">>
                  ELSE <<"Not in scope for this request.">>) >>

\* a dict without keys, and a dict of one key
NoKey == [k \in {} |-> << >>]
OneKey(k, values) == {NoKey} \cup {k :> v : v \in values}

Str_timeframe ==
    <<"J", "a", "n", "u", "a", "r", "y", " ", "1", ",", " ", "2", "0", "1",
      "9", " ", "t", "h", "r", "o", "u", "g", "h", " ", "D", "e", "c", "e",
      "m", "b", "e", "r", " ", "3", "1", ",", " ", "2", "0", "2", "5">>
Str_ongoing ==
    <<"o", "n", "g", "o", "i", "n", "g">>
Str_hipaa_waiver ==
    <<"I", "R", "B", " ", "h", "a", "s", " ", "a", "p", "p", "r", "o", "v",
      "e", "d", " ", "a", " ", "W", "a", "i", "v", "e", "r", " ", "o", "f",
      " ", "A", "u", "t", "h", "o", "r", "i", "z", "a", "t", "i", "o", "n">>
Str_hipaa_authorization ==
    <<"A", "u", "t", "h", "o", "r", "i", "z", "a", "t", "i", "o", "n", " ",
      "r", "e", "q", "u", "i", "r", "e", "d">>
Str_Type_2_Diabetes ==
    <<"T", "y", "p", "e", " ", "2", " ", "D", "i", "a", "b", "e", "t", "e",
      "s">>
Str_ICD_E11 ==
    <<"I", "C", "D", "-", "1", "0", " ", "E", "1", "1", ".", "9">>
Str_Asthma ==
    <<"A", "s", "t", "h", "m", "a">>
Str_window_2018 ==
    <<"2", "0", "1", "8", "-", "0", "6", "-", "0", "1", " ", "t", "o", " ",
      "2", "0", "2", "0", "-", "1", "2", "-", "3", "1">>
Str_window_2019 ==
    <<"2", "0", "1", "9", "-", "0", "3", "-", "0", "1", " ", "t", "o", " ",
      "2", "0", "2", "1", "-", "0", "1", "-", "0", "1">>
Str_age ==
    <<"a", "g", "e">>
Str_labs ==
    <<"l", "a", "b", "s">>
Str_Name ==
    <<"N", "a", "m", "e">>
Str_MRN ==
    <<"M", "R", "N">>

\* the IRB scopes extracted from a protocol: each field present or not
IrbScopes ==
    { s @@ t @@ h :
        s \in OneKey("sites", {<<"UAB-MainHospital", "UAB-ClinicA">>}),
        t \in OneKey("timeframe", {Str_timeframe, Str_ongoing}),
        h \in OneKey("hipaa", {Str_hipaa_waiver, Str_hipaa_authorization}) }

\* the requests: each key present or not
Requests ==
    { s @@ p @@ w @@ d @@ j :
        s \in OneKey("sites", {<<"UAB-MainHospital">>, <<"UAB-MainHospital", "Other">>}),
        p \in OneKey("population",
                     {"condition" :> c : c \in {Str_Type_2_Diabetes, Str_ICD_E11, Str_Asthma}}),
        w \in OneKey("time_window", {Str_window_2018, Str_window_2019}),
        d \in OneKey("data_elements", {<<Str_age, Str_labs>>, <<Str_Name, Str_age>>, <<Str_MRN>>}),
        j \in OneKey("jurisdictions", {<<"US">>, <<"US", "EU">>}) }

ComplianceInit ==
    /\ data_raw = << >>
    /\ data_B = << >>
    /\ pc = "compliance_agent"
    /\ reports = << >>
    /\ call = [fn |-> "none"]

\* results = evaluate_rules(irb_scope, req)
Call_evaluate_rules ==
    /\ pc = "compliance_agent"
    /\ call.fn = "none"
    /\ \E irb_scope \in IrbScopes, req \in Requests :
          call' = [fn |-> "evaluate_rules", irb_scope |-> irb_scope, req |-> req,
                   ret |-> evaluate_rules(irb_scope, req)]
    /\ UNCHANGED <<data_raw, data_B, pc, reports>>

\* verdict = decide_verdict(results)
Call_decide_verdict ==
    /\ pc = "compliance_agent"
    /\ call.fn = "evaluate_rules"
    /\ call' = [fn |-> "decide_verdict", irb_scope |-> call.irb_scope, req |-> call.req,
                results |-> call.ret, ret |-> decide_verdict(call.ret)]
    /\ UNCHANGED <<data_raw, data_B, pc, reports>>

ComplianceNext ==
    \/ Call_evaluate_rules
    \/ Call_decide_verdict
    \/ Return

ComplianceSpec == ComplianceInit /\ [][ComplianceNext]_vars

-----------------------------------------------------------------------------
(* Notions the properties are stated with, defined on the rows themselves. *)

\* rows i and j agree on every quasi-identifier
SameQI(df, i, j, qi_cols) == \A n \in 1..Len(qi_cols) : df[i][qi_cols[n]] = df[j][qi_cols[n]]

\* the rows indistinguishable from row i
ClassOf(df, i, qi_cols) == {j \in 1..Len(df) : SameQI(df, i, j, qi_cols)}

\* row i has a missing quasi-identifier
HasNoneQI(df, i, qi_cols) == \E n \in 1..Len(qi_cols) : IsNA(df[i], qi_cols[n])

RECURSIVE SumValues(_)
SumValues(table) ==
    IF table = {} THEN 0
    ELSE LET r == CHOOSE x \in table : TRUE
         IN r.value + SumValues(table \ {r})

\* table (rows key, value) lists the classes of df, each once, with its size
IsPartition(df, qi_cols, table) ==
    /\ \A i \in 1..Len(df) :
          Cardinality({r \in table : r.key = GroupKey(df[i], qi_cols)}) = 1
    /\ \A r \in table :
          /\ r.value >= 1
          /\ r.value = Cardinality({i \in 1..Len(df) : GroupKey(df[i], qi_cols) = r.key})
    /\ SumValues(table) = Len(df)
    /\ \A r1, r2 \in table : r1.key = r2.key => r1 = r2

\* the table a report was computed on: scenario A runs on data_raw
ReportFrame(n) == IF n = 1 THEN data_raw ELSE data_B

\* distance of the class `members` of df from the distribution of the whole
\* table, the keys iterated in hash_order
ClassTV(df, members, hash_order) ==
    total_variation_distance(distribution(Column(df, members, SA_COL)),
                             distribution(Column(df, 1..Len(df), SA_COL)), hash_order)

\* the sensitive values of df with their counts
KeyCounts(df) == ValueCounts(Column(df, 1..Len(df), SA_COL))

\* the orders in which the sensitive values of df can be iterated
KeyOrders(df) == Orderings(DOMAIN KeyCounts(df))

-----------------------------------------------------------------------------
(* Properties.                                                             *)

\* C1: grouping the records by their QI values partitions the dataset: every
\* record belongs to exactly one class, the class sizes sum to the dataset
\* size, and no two classes have the same key.
C1_Partition ==
    /\ call.fn = "k_anonymity_pandas" =>
          IsPartition(data_B, call.qi_cols, ResetIndex(call.sizes))
    /\ call.fn = "report_violations" =>
          IsPartition(data_B, call.ret.qi_cols, call.ret.sizes)
    /\ \A n \in 1..Len(reports) :
          IsPartition(ReportFrame(n), reports[n].qi_cols, reports[n].sizes)

\* a grouping with several classes, one of them with several members, and a
\* record with a missing quasi-identifier
C1_Witness ==
    /\ call.fn = "k_anonymity_pandas"
    /\ Cardinality(DOMAIN call.sizes) >= 2
    /\ \E key \in DOMAIN call.sizes : call.sizes[key] >= 2
    /\ \E i \in 1..Len(data_B) : HasNoneQI(data_B, i, call.qi_cols)

\* C2: two records are in the same class iff they have equal values on every
\* QI attribute; a record with a missing QI value is grouped (a missing value
\* equals only a missing value) and is counted by k, l and t.
C2_ExactKeyEquality ==
    /\ call.fn \in {"k_anonymity_pandas", "l_diversity_count", "t_closeness_tv"} =>
          \A i, j \in 1..Len(data_B) :
             (\E key \in DOMAIN call.groups : i \in call.groups[key] /\ j \in call.groups[key])
                <=> SameQI(data_B, i, j, call.qi_cols)
    /\ call.fn = "k_anonymity_pandas" =>
          \A i \in 1..Len(data_B) :
             call.ret <= Cardinality(ClassOf(data_B, i, call.qi_cols))
    /\ call.fn = "l_diversity_count" =>
          \A i \in 1..Len(data_B) :
             call.ret <= Cardinality({data_B[j][SA_COL] : j \in ClassOf(data_B, i, call.qi_cols)})
    /\ call.fn = "t_closeness_tv" =>
          \A i \in 1..Len(data_B) :
             \E o \in KeyOrders(data_B) :
                FLeq(ClassTV(data_B, ClassOf(data_B, i, call.qi_cols), o), call.ret)

\* two records that agree on one QI attribute and differ on another, and a
\* record with a missing QI value whose class alone decides k
C2_Witness ==
    /\ call.fn = "k_anonymity_pandas"
    /\ Len(call.qi_cols) >= 2
    /\ \E i, j \in 1..Len(data_B) :
          /\ data_B[i][call.qi_cols[1]] = data_B[j][call.qi_cols[1]]
          /\ ~SameQI(data_B, i, j, call.qi_cols)
    /\ \E i \in 1..Len(data_B) :
          /\ HasNoneQI(data_B, i, call.qi_cols)
          /\ Cardinality(ClassOf(data_B, i, call.qi_cols)) = call.ret
          /\ \A j \in 1..Len(data_B) :
                ~HasNoneQI(data_B, j, call.qi_cols) =>
                   Cardinality(ClassOf(data_B, j, call.qi_cols)) > call.ret

\* C3: k_anonymity_pandas returns the minimum equivalence-class size, and 0
\* when the partition is empty.
C3_KIsMinClassSize ==
    call.fn = "k_anonymity_pandas" =>
       IF Len(data_B) = 0
       THEN call.ret = 0
       ELSE /\ \E i \in 1..Len(data_B) :
                  call.ret = Cardinality(ClassOf(data_B, i, call.qi_cols))
            /\ \A i \in 1..Len(data_B) :
                  call.ret <= Cardinality(ClassOf(data_B, i, call.qi_cols))

\* classes of different sizes: the minimum is not the size of every class
C3_Witness ==
    /\ call.fn = "k_anonymity_pandas"
    /\ \E i \in 1..Len(data_B) :
          call.ret < Cardinality(ClassOf(data_B, i, call.qi_cols))

\* the sensitive values of the rows idx of df, a missing value included
SAValues(df, idx) == {df[i][SA_COL] : i \in idx}

\* the smallest member of a non-empty set of integers
MinOf(S) == CHOOSE m \in S : \A x \in S : m <= x

\* C4: l_diversity_count returns the minimum, over the classes, of the
\* number of distinct sensitive values among the members of the class, and 0
\* when the partition is empty.
C4_LIsMinDistinctSA ==
    call.fn = "l_diversity_count" =>
       IF Len(data_B) = 0
       THEN call.ret = 0
       ELSE call.ret = MinOf({Cardinality(SAValues(data_B, ClassOf(data_B, i, call.qi_cols))) :
                                 i \in 1..Len(data_B)})

\* C5: t_closeness_tv returns the maximum, over the classes, of the total
\* variation distance between the class's distribution of the sensitive
\* attribute and that of the whole dataset, and 0.0 when the partition is
\* empty.  (The distance of a class is the value of the sum of line 49 in the
\* order its keys were iterated in: the value returned is the distance of
\* some class, and no class is farther under the orders of the call.)
C5_TIsMaxClassTV ==
    call.fn = "t_closeness_tv" =>
       IF Len(data_B) = 0
       THEN call.ret = FZero
       ELSE /\ \E i \in 1..Len(data_B), o \in KeyOrders(data_B) :
                  call.ret = ClassTV(data_B, ClassOf(data_B, i, call.qi_cols), o)
            /\ \A i \in 1..Len(data_B) :
                  \E o \in KeyOrders(data_B) :
                     FLeq(ClassTV(data_B, ClassOf(data_B, i, call.qi_cols), o), call.ret)

\* classes at different distances from the global distribution
C5_Witness ==
    /\ call.fn = "t_closeness_tv"
    /\ \E i, j \in 1..Len(data_B) :
          \A o1, o2 \in KeyOrders(data_B) :
             FLess(ClassTV(data_B, ClassOf(data_B, i, call.qi_cols), o1),
                   ClassTV(data_B, ClassOf(data_B, j, call.qi_cols), o2))
    /\ FLess(FZero, call.ret)

\* the elements of a sequence
Range(seq) == {seq[n] : n \in 1..Len(seq)}

\* number of occurrences of v in a series
Count(series, v) == Cardinality({i \in DOMAIN series : series[i] = v})

\* the frequency of v in a series: count / total, and 0 when v is absent (every
\* frequency of the empty series is 0)
Frequency(series, v) ==
    IF Count(series, v) = 0 THEN FZero
    ELSE TrueDiv(Count(series, v), Cardinality(DOMAIN series))

\* half the sum of |p(v) - q(v)| over the values, added up in the order `values`
HalfSumAbsDiff(sp, sq, values) ==
    FHalf(FSum([v \in Range(values) |->
                   FAbs(FSub(Frequency(sp, v), Frequency(sq, v)))], values))

\* 2^-51, four times the relative error of one float operation
Eps == [neg |-> FALSE, hi |-> 2^25, lo |-> 0, exp |-> -103]

\* the rounding allowance of a result computed from n frequencies:
\* (n + 1) * 2^-51
Allowance(n) == FSum([i \in 1..(n + 1) |-> Eps], [i \in 1..(n + 1) |-> i])

\* x <= y up to the rounding allowance for n frequencies
LeqRounded(x, y, n) == FLeq(x, FAdd(y, Allowance(n)))

\* the values of two series
ValuesOf(sp, sq) == {sp[i] : i \in DOMAIN sp} \cup {sq[i] : i \in DOMAIN sq}

\* C6 (as stated): total_variation_distance(p, q) is half the sum over the
\* union of the supports of |p(v) - q(v)|, an absent value counting as 0; it
\* lies in [0, 1] and is 0 for identical distributions; so 0 <= t <= 1.
C6_TVDRange ==
    /\ call.fn = "total_variation_distance" =>
          LET values == ValuesOf(call.sp, call.sq)
          IN /\ \E o \in Orderings(values) : call.ret = HalfSumAbsDiff(call.sp, call.sq, o)
             /\ FLeq(FZero, call.ret)
             /\ FLeq(call.ret, FOne)
             /\ distribution(call.sp) = distribution(call.sq) => call.ret = FZero
    /\ call.fn = "t_closeness_tv" => FLeq(FZero, call.ret) /\ FLeq(call.ret, FOne)
    /\ \A n \in 1..Len(reports) :
          FLeq(FZero, reports[n].t_val) /\ FLeq(reports[n].t_val, FOne)

\* C6 (amended): total_variation_distance(p, q) is half the sum over the union
\* of the supports of |p(v) - q(v)|, added up as floats in the order the set
\* of the values is iterated in, an absent value counting as 0; it is 0 for
\* identical distributions and lies in [0, 1] up to the rounding of the float
\* operations: 0 <= result <= 1 + (n + 1) * 2^-51 for n values; so t too is
\* in [0, 1] up to that rounding.
C6_TVDRangeRounded ==
    /\ call.fn = "total_variation_distance" =>
          LET values == ValuesOf(call.sp, call.sq)
          IN /\ \E o \in Orderings(values) : call.ret = HalfSumAbsDiff(call.sp, call.sq, o)
             /\ FLeq(FZero, call.ret)
             /\ LeqRounded(call.ret, FOne, Cardinality(values))
             /\ distribution(call.sp) = distribution(call.sq) => call.ret = FZero
    /\ call.fn = "t_closeness_tv" =>
          /\ FLeq(FZero, call.ret)
          /\ LeqRounded(call.ret, FOne, Cardinality(DOMAIN KeyCounts(data_B)))
    /\ \A n \in 1..Len(reports) :
          /\ FLeq(FZero, reports[n].t_val)
          /\ LeqRounded(reports[n].t_val, FOne, Cardinality(DOMAIN KeyCounts(data_raw)))

\* two distributions with no value in common, whose distance is computed as
\* more than 1
C6_RoundedWitness ==
    /\ call.fn = "total_variation_distance"
    /\ \A i \in DOMAIN call.sp : \A j \in DOMAIN call.sq : call.sp[i] # call.sq[j]
    /\ FLess(FOne, call.ret)

\* the orders in which the items of the dict can be listed: value_counts
\* lists the values by decreasing count
ItemOrders(series) ==
    {o \in Orderings({series[i] : i \in DOMAIN series}) :
        \A i, j \in DOMAIN o : i < j => Count(series, o[i]) >= Count(series, o[j])}

\* C7 (as stated): distribution maps each distinct sensitive value occurring
\* in the records to count(value)/total_count, so the frequencies of a
\* non-empty set sum to 1 (added up in the order of the dict); for an empty
\* set it returns the empty mapping.
C7_Distribution ==
    call.fn = "distribution" =>
       LET n == Cardinality(DOMAIN call.series)
       IN /\ DOMAIN call.ret = {call.series[i] : i \in DOMAIN call.series}
          /\ \A v \in DOMAIN call.ret :
                call.ret[v] = TrueDiv(Count(call.series, v), n)
          /\ n > 0 => \A o \in ItemOrders(call.series) : FSum(call.ret, o) = FOne
          /\ n = 0 => call.ret = << >>

\* C7 (amended): distribution maps each distinct sensitive value occurring in
\* the records to the float count(value)/total_count, so the frequencies of
\* a non-empty set sum to 1 up to the rounding of the float operations (the
\* sum of the n frequencies, in any order, is within (n + 1) * 2^-51 of 1);
\* for an empty set it returns the empty mapping.
C7_DistributionRounded ==
    call.fn = "distribution" =>
       LET n == Cardinality(DOMAIN call.series)
       IN /\ DOMAIN call.ret = {call.series[i] : i \in DOMAIN call.series}
          /\ \A v \in DOMAIN call.ret :
                call.ret[v] = TrueDiv(Count(call.series, v), n)
          /\ n > 0 =>
                \A o \in Orderings(DOMAIN call.ret) :
                   FLeq(FAbs(FSub(FSum(call.ret, o), FOne)),
                        Allowance(Cardinality(DOMAIN call.ret)))
          /\ n = 0 => call.ret = << >>

\* a series whose frequencies, added up in the order of the dict, do not sum
\* to 1
C7_RoundedWitness ==
    /\ call.fn = "distribution"
    /\ \E v, w \in DOMAIN call.ret : FLess(call.ret[v], call.ret[w])
    /\ \A o \in ItemOrders(call.series) : FLess(FSum(call.ret, o), FOne)

\* C8: whenever the dataset is non-empty, 1 <= l <= the number of distinct
\* sensitive values of the whole dataset; a class with a single member
\* contributes a distinct-value count of exactly 1.
C8_LBounds ==
    call.fn = "l_diversity_count" =>
       /\ Len(data_B) > 0 =>
             /\ 1 <= call.ret
             /\ call.ret <= Cardinality(SAValues(data_B, 1..Len(data_B)))
       /\ \A key \in DOMAIN call.counts :
             Cardinality(call.groups[key]) = 1 => call.counts[key] = 1

\* how much a quasi-identifier list generalizes each attribute:
\* 0 the raw column, 1 the generalized column, 2 the attribute left out
AgeLevel(qi_cols) ==
    IF "Age" \in Range(qi_cols) THEN 0 ELSE IF "AgeBand" \in Range(qi_cols) THEN 1 ELSE 2
ZipLevel(qi_cols) ==
    IF "ZIP" \in Range(qi_cols) THEN 0 ELSE IF "ZIP3" \in Range(qi_cols) THEN 1 ELSE 2
GenderLevel(qi_cols) ==
    IF "Gender" \in Range(qi_cols) THEN 0 ELSE 2

\* coarse is fine with one attribute coarsened and the others as they were
CoarsensOne(fine, coarse) ==
    \/ /\ AgeLevel(fine) < AgeLevel(coarse)
       /\ ZipLevel(fine) = ZipLevel(coarse)
       /\ GenderLevel(fine) = GenderLevel(coarse)
    \/ /\ AgeLevel(fine) = AgeLevel(coarse)
       /\ ZipLevel(fine) < ZipLevel(coarse)
       /\ GenderLevel(fine) = GenderLevel(coarse)
    \/ /\ AgeLevel(fine) = AgeLevel(coarse)
       /\ ZipLevel(fine) = ZipLevel(coarse)
       /\ GenderLevel(fine) < GenderLevel(coarse)

\* C9: coarsening one QI attribute (the raw column replaced by its band or its
\* prefix, or the attribute dropped from the QI list), the others held fixed,
\* never decreases k and never decreases l on the same dataset.
C9_CoarseningMonotone ==
    /\ call.fn = "k_anonymity_pandas" =>
          \A coarse \in QILists :
             CoarsensOne(call.qi_cols, coarse) =>
                call.ret <= k_anonymity_pandas(data_B, coarse)
    /\ call.fn = "l_diversity_count" =>
          \A coarse \in QILists :
             CoarsensOne(call.qi_cols, coarse) =>
                call.ret <= l_diversity_count(data_B, coarse, SA_COL)

\* a coarsening that merges classes: both k and l grow strictly
C9_Witness ==
    /\ call.fn = "l_diversity_count"
    /\ \E coarse \in QILists :
          /\ CoarsensOne(call.qi_cols, coarse)
          /\ call.ret < l_diversity_count(data_B, coarse, SA_COL)
          /\ k_anonymity_pandas(data_B, call.qi_cols) < k_anonymity_pandas(data_B, coarse)

Str20_29 == <<"2", "0", "-", "2", "9">>
Str40_49 == <<"4", "0", "-", "4", "9">>
Str352 == <<"3", "5", "2", "*", "*">>

\* C10: on the reference dataset with QI = (AgeBand, ZIP3) the partition has
\* exactly the two classes "20-29"/"352**" and "40-49"/"352**", of size 3, so
\* k = 3, l = 2 and t = 1/3; t passes with t_max = 0.34 and fails with 0.30.
C10_ReferenceScenarioC ==
    data_raw = ReferenceData =>
       /\ Len(reports) = 3 =>
             /\ reports[3].qi_cols = QI_C
             /\ reports[3].sizes = {[key |-> <<Str20_29, Str352>>, value |-> 3],
                                    [key |-> <<Str40_49, Str352>>, value |-> 3]}
             /\ reports[3].k_val = 3
             /\ reports[3].l_val = 2
             /\ reports[3].t_val = TrueDiv(1, 3)
             /\ reports[3].t_req = Float_0_34
             /\ ~reports[3].t_printed
       /\ (call.fn = "report_violations" /\ call.ret.qi_cols = QI_C) =>
             /\ call.ret.k_val = 3
             /\ call.ret.l_val = 2
             /\ call.ret.t_val = TrueDiv(1, 3)
             /\ call.ret.t_req = Float_0_34 => ~call.ret.t_printed
             /\ call.ret.t_req = Float_0_30 => call.ret.t_printed

\* the reference dataset reported with t_max = 0.30 after scenario C has run
C10_Witness ==
    /\ data_raw = ReferenceData
    /\ Len(reports) = 3
    /\ call.fn = "report_violations"
    /\ call.ret.qi_cols = QI_C
    /\ call.ret.t_req = Float_0_30
    /\ call.ret.t_printed


\* C11: on the reference dataset with the raw QI (Age, ZIP, Gender) the six QI
\* tuples are distinct: six classes of size 1, so k = 1 and l = 1.
C11_ReferenceScenarioA ==
    (data_raw = ReferenceData /\ Len(reports) >= 1) =>
       /\ reports[1].qi_cols = QI_A
       /\ Cardinality(reports[1].sizes) = 6
       /\ \A r \in reports[1].sizes : r.value = 1
       /\ \A i, j \in 1..Len(data_raw) : SameQI(data_raw, i, j, QI_A) => i = j
       /\ reports[1].k_val = 1
       /\ reports[1].l_val = 1

\* scenario A has reported on the reference dataset
C11_Witness ==
    /\ data_raw = ReferenceData
    /\ Len(reports) >= 1
    /\ reports[1].k_val = 1


\* P holds of every report printed so far and of the report of the call in
\* progress, each with the table it was computed on (the printed reports do
\* not change during a call: they are examined when no call is in progress)
ForEveryReport(P(_, _)) ==
    /\ call.fn = "none" => \A n \in 1..Len(reports) : P(ReportFrame(n), reports[n])
    /\ call.fn = "report_violations" => P(data_B, call.ret)

PassFailDecision(df, r) ==
    /\ ~r.k_printed <=> r.k_val >= r.k_req
    /\ ~r.l_printed <=> r.l_val >= r.l_req
    /\ ~r.t_printed <=> FLeq(r.t_val, r.t_req)

\* C12: the reporter's decision per metric: k passes iff k >= k_min, l passes
\* iff l >= l_min, t passes iff t <= t_max (a value equal to its threshold
\* passes); a metric fails iff its violation block is printed.
C12_PassFail == ForEveryReport(PassFailDecision)

\* a report in which each metric equals its threshold, and passes
C12_Witness ==
    /\ call.fn = "report_violations"
    /\ Len(data_B) > 0
    /\ call.ret.k_val = call.ret.k_req
    /\ call.ret.l_val = call.ret.l_req
    /\ call.ret.t_val = call.ret.t_req
    /\ ~call.ret.k_printed /\ ~call.ret.l_printed /\ ~call.ret.t_printed


\* the classes of df with the value f gives them, as rows key, value
ClassRows(df, qi_cols, f(_)) ==
    {[key |-> GroupKey(df[i], qi_cols), value |-> f(ClassOf(df, i, qi_cols))] :
        i \in 1..Len(df)}

DistinctSA(df, members) == Cardinality(SAValues(df, members))

ViolationLists(df, r) ==
    /\ r.k_printed =>
          r.k_groups = {row \in ClassRows(df, r.qi_cols, Cardinality) : row.value < r.k_req}
    /\ r.l_printed =>
          r.l_groups = {row \in ClassRows(df, r.qi_cols, LAMBDA m : DistinctSA(df, m)) :
                           row.value < r.l_req}

\* C13: when k fails the k-violation list is exactly the classes of size
\* < k_min, when l fails the l-violation list is exactly the classes with
\* fewer than l_min distinct sensitive values, each with its key and its
\* value; scenario A (k_min = 2, l_min = 2) lists all 6 classes in both.
C13_ViolationLists ==
    /\ ForEveryReport(ViolationLists)
    /\ (data_raw = ReferenceData /\ Len(reports) >= 1) =>
          /\ Cardinality(reports[1].k_groups) = 6
          /\ Cardinality(reports[1].l_groups) = 6

TViolationList(df, r) ==
    r.t_printed =>
       \E o \in KeyOrders(df) :
          r.t_groups = {row \in ClassRows(df, r.qi_cols, LAMBDA m : ClassTV(df, m, o)) :
                           FLess(r.t_req, row.value)}

\* C14: when t fails, the report lists every class whose total variation
\* distance from the global distribution exceeds t_max, with its key and its
\* distance.
C14_TViolationList == ForEveryReport(TViolationList)


EmptyReport(df, r) ==
    Len(df) = 0 =>
       /\ r.k_val = 0 /\ r.l_val = 0 /\ r.t_val = FZero
       /\ r.k_req >= 1 => r.k_printed
       /\ r.l_req >= 1 => r.l_printed
       /\ ~r.t_printed

\* C15: on an empty Record Store the pipeline runs and the metrics are the
\* degenerate k = 0, l = 0, t = 0.0; the reporter reports k (l) as failing
\* for every threshold k_min >= 1 (l_min >= 1).
C15_EmptyDataset ==
    /\ ForEveryReport(EmptyReport)
    /\ (Len(data_B) = 0 /\ call.fn = "k_anonymity_pandas") => call.ret = 0
    /\ (Len(data_B) = 0 /\ call.fn = "l_diversity_count") => call.ret = 0
    /\ (Len(data_B) = 0 /\ call.fn = "t_closeness_tv") => call.ret = FZero
    /\ (Len(data_raw) = 0 /\ pc = "done") => Len(reports) = 3

\* the three scenarios have run on the empty dataset and reported k as failing
C15_Witness ==
    /\ Len(data_raw) = 0
    /\ pc = "done"
    /\ Len(reports) = 3
    /\ reports[1].k_printed /\ reports[1].l_printed
    /\ reports[3].k_val = 0


\* C16: a generalization function fails with an error whenever the type of
\* the raw value is incompatible with it (banding a non-integer, masking a
\* non-string); it never coerces the value and returns a label.
C16_InvalidInputRaises ==
    /\ (call.fn = "band_age" /\ call.arg.type # "int") => call.raised
    /\ (call.fn = "zip3_prefix" /\ call.arg.type # "str") => call.raised

\* the m with 10 m <= v <= 10 m + 9
Floor10(v) ==
    CHOOSE m \in -(MaxAge \div 10 + 1)..(MaxAge \div 10 + 1) : 10 * m <= v /\ v <= 10 * m + 9

\* C17: band_age maps every integer v (0 and the negative ones included) to
\* "{lower}-{upper}" with lower = floor(v/10)*10, upper = lower + 9, hence
\* lower <= v <= upper and lower a multiple of 10; two integers get the same
\* label iff they have the same floor(v/10).
C17_BandAge ==
    (call.fn = "band_age" /\ call.arg.type = "int") =>
       LET v == call.arg.v
           m == Floor10(v)
           lower == 10 * m
       IN /\ ~call.raised
          /\ lower <= v /\ v <= lower + 9 /\ lower % 10 = 0
          /\ call.ret = IntStr(lower) \o <<"-">> \o IntStr(lower + 9)
          /\ \A w \in -MaxAge..MaxAge :
                (band_age(w) = call.ret) <=> (Floor10(w) = m)

\* a negative integer that is not a multiple of 10
C17_Witness ==
    /\ call.fn = "band_age"
    /\ call.arg.type = "int"
    /\ call.arg.v < 0
    /\ call.arg.v % 10 # 0
    /\ ~call.raised

\* C18: zip3_prefix maps a string to its first 3 characters followed by "**",
\* and a string of fewer than 3 characters (the empty one included) to the
\* whole string followed by "**".
C18_Zip3Prefix ==
    (call.fn = "zip3_prefix" /\ call.arg.type = "str") =>
       LET z == call.arg.chars
       IN /\ ~call.raised
          /\ Len(z) >= 3 => call.ret = <<z[1], z[2], z[3], "*", "*">>
          /\ Len(z) < 3 => call.ret = z \o <<"*", "*">>

\* a string longer than 3 characters has been masked
C18_Witness ==
    /\ call.fn = "zip3_prefix"
    /\ call.arg.type = "str"
    /\ Len(call.arg.chars) > 3
    /\ Len(call.ret) = 5


\* the functions that take the dataset as their argument df
DatasetFunctions ==
    {"report_violations", "k_anonymity_pandas", "l_diversity_count", "t_closeness_tv"}

\* C19: report_violations and the three metric calculators leave the dataset
\* they are given unchanged: after a call (a direct one, or the one a scenario
\* makes on an existing frame) the frame has the same records, columns and
\* values as before.
C19_StoreUnchanged ==
    [][ /\ (call.fn = "none" /\ call'.fn \in DatasetFunctions) =>
              (data_B' = data_B /\ data_raw' = data_raw)
        /\ (pc = "A" /\ pc' = "B") => (data_raw' = data_raw /\ data_B' = data_B)
        /\ (pc = "C" /\ pc' = "done") => (data_raw' = data_raw /\ data_B' = data_B)
      ]_vars

\* a report has been computed on a frame that has a record without a
\* sensitive value and a violating class
C19_Witness ==
    /\ call.fn = "report_violations"
    /\ \E i \in 1..Len(data_B) : IsNA(data_B[i], SA_COL)
    /\ call.ret.k_printed

\* the reports each scenario can print when run alone on the raw dataset, one
\* per iteration order (compared with the printed reports between calls: a
\* call changes neither)
StandaloneA(raw) == report_violations(raw, QI_A, SA_COL, 2, 2, Float_0_20)
StandaloneB(raw) ==
    report_violations(WithGeneralizedColumns(raw), QI_B, SA_COL, 2, 2, Float_0_20)
StandaloneC(raw) ==
    report_violations(WithGeneralizedColumns(raw), QI_C, SA_COL, 3, 2, Float_0_34)

ScenariosInOrder ==
    /\ pc = "A" => Len(reports) = 0
    /\ pc = "B" => Len(reports) = 1
    /\ pc = "C" => Len(reports) = 2
    /\ pc = "done" => Len(reports) = 3
    /\ (call.fn = "none" /\ Len(reports) >= 1) => reports[1] \in StandaloneA(data_raw)
    /\ (call.fn = "none" /\ Len(reports) >= 2) => reports[2] \in StandaloneB(data_raw)
    /\ (call.fn = "none" /\ Len(reports) >= 3) => reports[3] \in StandaloneC(data_raw)

\* C20: the scenarios run in the order A, B, C and are independent: the
\* report of each equals the report of that scenario run alone on the raw
\* dataset, and data_raw never changes, also not when scenario B adds the
\* generalized columns to its working copy.
C20_ScenariosIndependent ==
    /\ []ScenariosInOrder
    /\ [](\A i \in 1..Len(data_raw) : DOMAIN data_raw[i] = RawColumns)
    /\ [][data_raw' = data_raw]_vars

\* the three scenarios have run on a dataset where generalization changed
\* the classes, and the working copy has the generalized columns
C20_Witness ==
    /\ pc = "done"
    /\ Len(reports) = 3
    /\ Len(data_raw) > 0
    /\ reports[2].k_val > reports[1].k_val
    /\ \A i \in 1..Len(data_B) : DOMAIN data_B[i] = RawColumns \cup {"AgeBand", "ZIP3"}


\* C21: an error raised while one scenario is evaluated ends that scenario
\* only: when the module has ended, every scenario of the list has been run
\* and has its report (or its own failure report).
C21_SiblingScenariosStillRun ==
    pc \in {"done", "aborted"} => Len(reports) = 3

\* the names a call was given that data_raw does not have
AbsentNames(c) ==
    ({c.qi_cols[j] : j \in 1..Len(c.qi_cols)}
        \cup (IF c.fn = "k_anonymity_pandas_py" THEN {} ELSE {c.sa_col})) \ RawColumns

\* C22: when a QI name or the sensitive-attribute name is absent from the
\* columns of the dataset, the calculators and the reporter raise an error;
\* they return a value only when every name is present, and it is then the
\* value computed on all the named columns.
C22_AbsentColumnRaises ==
    /\ call.fn \in {"k_anonymity_pandas_py", "l_diversity_count_py",
                    "t_closeness_tv_py", "report_violations_py"} =>
          (call.raised <=> AbsentNames(call) # {})
    /\ (call.fn = "k_anonymity_pandas_py" /\ ~call.raised) =>
          call.ret = k_anonymity_pandas(data_raw, call.qi_cols)

\* the k calculator has been called on a non-empty dataset with a QI list
\* that names absent columns, and has raised
C22_Witness ==
    /\ call.fn = "k_anonymity_pandas_py"
    /\ Len(data_raw) > 0
    /\ call.qi_cols = QI_B
    /\ call.raised


\* C23: for every dataset (the empty one included) and QI list, the k, l and
\* t values that report_violations computes inline and prints equal the
\* values returned by k_anonymity_pandas, l_diversity_count and
\* t_closeness_tv on the same arguments.
C23_InlineEqualsCalculators ==
    call.fn = "report_violations" =>
       /\ call.ret.k_val = k_anonymity_pandas(data_B, call.ret.qi_cols)
       /\ call.ret.l_val = l_diversity_count(data_B, call.ret.qi_cols, SA_COL)
       /\ call.ret.t_val \in t_closeness_tv(data_B, call.ret.qi_cols, SA_COL)

\* a report on a dataset with classes of different sizes and a t above 0
C23_Witness ==
    /\ call.fn = "report_violations"
    /\ Len(data_B) = MaxRows
    /\ Cardinality(call.ret.sizes) = 2
    /\ call.ret.k_val = 1
    /\ FLess(FZero, call.ret.t_val)

ViolationListsMatchVerdict(df, r) ==
    /\ Len(df) = 0 => (r.k_groups = {} /\ r.l_groups = {})
    /\ Len(df) > 0 => /\ r.k_groups # {} <=> r.k_printed
                      /\ r.l_groups # {} <=> r.l_printed

\* C24: the reporter's list of the classes violating k (resp. l) is empty
\* for an empty dataset whatever the thresholds, and for a non-empty dataset
\* it is non-empty exactly when the k (resp. l) metric is reported as failing.
C24_ViolationListsMatchVerdict == ForEveryReport(ViolationListsMatchVerdict)

\* a report where k is exactly at its threshold (no list) and l is below its
\* threshold (a list)
C24_Witness ==
    /\ call.fn = "report_violations"
    /\ Len(data_B) > 0
    /\ call.ret.k_val = call.ret.k_req
    /\ call.ret.k_groups = {}
    /\ call.ret.l_groups # {}

\* C25: for every dataset and QI list, l <= k: the smallest number of
\* distinct sensitive values in a class is at most the smallest class size.
C25_LAtMostK ==
    call.fn = "l_diversity_count" =>
       call.ret <= k_anonymity_pandas(data_B, call.qi_cols)

\* classes of different sizes, the largest with more distinct sensitive
\* values than the smallest has records
C25_Witness ==
    /\ call.fn = "l_diversity_count"
    /\ call.ret = 1
    /\ k_anonymity_pandas(data_B, call.qi_cols) = 1
    /\ \E key \in DOMAIN call.counts : call.counts[key] = 2


\* the classes of the coarser list that merge several classes of the finer one
MergedClasses(df, fine, coarse) ==
    {ClassOf(df, i, coarse) : i \in 1..Len(df)} \ {ClassOf(df, i, fine) : i \in 1..Len(df)}

\* C26 (as stated): coarsening the QI list so that classes merge (the raw
\* column replaced by its band or its prefix, or an attribute dropped), on
\* the same dataset and sensitive attribute, never increases t: the coarser
\* list can give a t that is at most the t of the call.
C26_CoarseningNeverIncreasesT ==
    call.fn = "t_closeness_tv" =>
       \A coarse \in QILists :
          CoarsensOne(call.qi_cols, coarse) =>
             \E t \in t_closeness_tv(data_B, coarse, SA_COL) : FLeq(t, call.ret)

\* C26 (amended): coarsening the QI list so that classes merge, on the same
\* dataset and sensitive attribute, never increases t by more than the
\* rounding of the float operations: every t the coarser list can give is at
\* most the t of the finer one plus (n + 1) * 2^-51, n the number of distinct
\* sensitive values.
C26_CoarseningRounded ==
    call.fn = "t_closeness_tv" =>
       \A coarse \in QILists :
          CoarsensOne(call.qi_cols, coarse) =>
             \A t \in t_closeness_tv(data_B, coarse, SA_COL) :
                LeqRounded(t, call.ret, Cardinality(DOMAIN KeyCounts(data_B)))

\* a coarsening that merges classes and gives a t above that of the call,
\* whatever the iteration orders
C26_RoundedWitness ==
    /\ call.fn = "t_closeness_tv"
    /\ \E coarse \in QILists :
          /\ CoarsensOne(call.qi_cols, coarse)
          /\ MergedClasses(data_B, call.qi_cols, coarse) # {}
          /\ \A t \in t_closeness_tv(data_B, coarse, SA_COL) : FLess(call.ret, t)

\* C27 (as stated): for every non-empty dataset and QI list t < 1: the total
\* variation distance of a class of size `size` from the global distribution
\* of the n records is at most 1 - size/n.
C27_TBelowOne ==
    (call.fn = "t_closeness_tv" /\ Len(data_B) > 0) =>
       /\ FLess(call.ret, FOne)
       /\ \A i \in 1..Len(data_B), o \in KeyOrders(data_B) :
             LET members == ClassOf(data_B, i, call.qi_cols)
             IN FLeq(ClassTV(data_B, members, o),
                     FSub(FOne, TrueDiv(Cardinality(members), Len(data_B))))

\* C27 (amended): for every non-empty dataset and QI list the total variation
\* distance of a class of size `size` from the global distribution of the n
\* records is at most 1 - size/n up to the rounding of the float operations
\* (at most (m + 1) * 2^-51 above the float 1 - size/n, m the number of
\* distinct sensitive values), so t < 1 as long as 1/n exceeds that rounding.
C27_TBelowOneRounded ==
    (call.fn = "t_closeness_tv" /\ Len(data_B) > 0) =>
       /\ FLess(call.ret, FOne)
       /\ \A i \in 1..Len(data_B), o \in KeyOrders(data_B) :
             LET members == ClassOf(data_B, i, call.qi_cols)
             IN LeqRounded(ClassTV(data_B, members, o),
                           FSub(FOne, TrueDiv(Cardinality(members), Len(data_B))),
                           Cardinality(DOMAIN KeyCounts(data_B)))

\* a class whose distance is computed as more than the float 1 - size/n
C27_RoundedWitness ==
    /\ call.fn = "t_closeness_tv"
    /\ FLess(FZero, call.ret)
    /\ \E i \in 1..Len(data_B) :
          LET members == ClassOf(data_B, i, call.qi_cols)
          IN \A o \in KeyOrders(data_B) :
                FLess(FSub(FOne, TrueDiv(Cardinality(members), Len(data_B))),
                      ClassTV(data_B, members, o))

\* all the records share one QI tuple
SingleClass(df, qi_cols) == \A i, j \in 1..Len(df) : SameQI(df, i, j, qi_cols)

\* C28: when all the records of a non-empty dataset share the same QI tuple,
\* t = 0 and k is the number of records, and the report passes t for every
\* t_max >= 0.
C28_SingleClass ==
    /\ (call.fn = "t_closeness_tv" /\ Len(data_B) > 0 /\ SingleClass(data_B, call.qi_cols)) =>
          call.ret = FZero
    /\ (call.fn = "k_anonymity_pandas" /\ Len(data_B) > 0 /\ SingleClass(data_B, call.qi_cols)) =>
          call.ret = Len(data_B)
    /\ (call.fn = "report_violations" /\ Len(data_B) > 0
          /\ SingleClass(data_B, call.ret.qi_cols)) =>
          /\ call.ret.t_val = FZero
          /\ call.ret.k_val = Len(data_B)
          /\ ~call.ret.t_printed

\* a report with t_max = 0 on a single class of several records with
\* different sensitive values
C28_Witness ==
    /\ call.fn = "report_violations"
    /\ Len(data_B) >= 2
    /\ SingleClass(data_B, call.ret.qi_cols)
    /\ \E i, j \in 1..Len(data_B) : data_B[i][SA_COL] # data_B[j][SA_COL]
    /\ call.ret.t_req = FZero
    /\ ~call.ret.t_printed


\* C29: a Researcher gets only non-sensitive data: over the declared levels
\* (standard, high, restricted) is_allowed is True for a Researcher only when
\* the resource is of the standard level; a Physician is allowed any resource
\* exactly when the purpose of use is treatment; is_allowed is False when no
\* rule allows the access.
C29_ResearcherOnlyNonSensitive ==
    call.fn = "is_allowed" =>
       /\ (call.subj.role = "Researcher" /\ call.ret) => call.res.sensitivity = "standard"
       /\ call.subj.role = "Physician" =>
             (call.ret <=> call.subj.purpose_of_use = "treatment")
       /\ (\A n \in DOMAIN call.verdicts : ~call.verdicts[n]) => ~call.ret


\* the verdict of the call, from the findings it was given
IrbFails(results) ==
    \E n \in DOMAIN results : results[n].id = "irb_scope_alignment" /\ ~results[n].pass
HipaaFails(results) ==
    \E n \in DOMAIN results : results[n].rule_set = "hipaa" /\ ~results[n].pass
GdprFails(results) ==
    \E n \in DOMAIN results : results[n].rule_set = "gdpr" /\ ~results[n].pass

\* the request asks for a direct identifier (in any letter case)
HasDirectIdentifier(req) ==
    /\ "data_elements" \in DOMAIN req
    /\ \E n \in DOMAIN req["data_elements"] :
          Lower(req["data_elements"][n]) \in DIRECT_IDENTIFIERS

\* the request without its jurisdictions
WithoutJurisdictions(req) == [k \in DOMAIN req \ {"jurisdictions"} |-> req[k]]

\* C30: decide_verdict on the findings of evaluate_rules is "Not allowed"
\* iff the IRB scope-alignment rule fails, otherwise "Allowed with
\* conditions" iff some HIPAA rule fails, otherwise "Allowed"; a failing GDPR
\* rule (EU among the jurisdictions) never changes the verdict; a request
\* with a direct identifier never gets "Allowed".
C30_Verdict ==
    call.fn = "decide_verdict" =>
       /\ call.results = evaluate_rules(call.irb_scope, call.req)
       /\ call.ret = "Not allowed" <=> IrbFails(call.results)
       /\ ~IrbFails(call.results) =>
             (call.ret = "Allowed with conditions" <=> HipaaFails(call.results))
       /\ (~IrbFails(call.results) /\ ~HipaaFails(call.results)) => call.ret = "Allowed"
       /\ call.ret =
             decide_verdict(evaluate_rules(call.irb_scope, WithoutJurisdictions(call.req)))
       /\ HasDirectIdentifier(call.req) => call.ret # "Allowed"

\* a request within the IRB scope, for the EU, without direct identifiers:
\* only the GDPR finding fails and the verdict is "Allowed"
C30_Witness ==
    /\ call.fn = "decide_verdict"
    /\ GdprFails(call.results)
    /\ ~IrbFails(call.results)
    /\ ~HipaaFails(call.results)
    /\ "data_elements" \in DOMAIN call.req
    /\ "time_window" \in DOMAIN call.req
    /\ "timeframe" \in DOMAIN call.irb_scope
    /\ call.ret = "Allowed"

=============================================================================
